---- MODULE Spec2Model ----
(***************************************************************************)
(* A model of the generation engine and the spaced-repetition scheduler    *)
(* of tcm-exam-app:                                                        *)
(*   - engine/spacedRepetition.ts  (SM-2 state transition)                 *)
(*   - engine/symptomSampler.ts    (sampleSymptoms)                        *)
(*   - engine/distractorGenerator.ts (generateDistractors)                 *)
(*   - engine/questionEngine.ts    (generateQuestion and the batch calls)  *)
(*   - engine/caseGenerator.ts     (generateCaseQuestion and its callers)  *)
(*   - utils/random.ts             (shuffle, pickManyUnique, pickOne)      *)
(*                                                                         *)
(* Every component is a pure function over its arguments.  Each has its    *)
(* own specification: the initial states draw the arguments that stay      *)
(* fixed (the dataset, the item list) from bounded sets, and one action    *)
(* per exported function applies it, its remaining arguments and its       *)
(* random draws being chosen with \E.                                      *)
(*                                                                         *)
(* Numbers.  The easiness factor is kept in hundredths (2.5 is 250): the   *)
(* code rounds it to two decimals on every call (toFixed(2)), and each     *)
(* per-quality change is a whole number of hundredths.  Math.round is      *)
(* round-half-up.  Timestamps are milliseconds.                            *)
(***************************************************************************)
EXTENDS Integers, Sequences, FiniteSets, TLC

VARIABLES
    sm2_state,   \* the Sm2State persisted for one (syndrome, type) key, or Null
    sm2_call,    \* the last getNextSm2State call: its arguments and its result
    sym_items,   \* the symptom items of the syndrome being sampled
    sym_call,    \* the last sampleSymptoms call: its arguments and its result
    dataset,     \* the loaded dataset: [diseases, syndromes]
    call,        \* the last call of the distractor generator or the question
                 \* engine: the function, its arguments and its result
    loader,      \* data/dataset.ts: the dataset cache and the calls of loadDataset
    storage,     \* storage/db.ts: the database, the init promise and its callers
    session      \* App.tsx: the question on screen and its submissions

sm2_vars == <<sm2_state, sm2_call>>

sym_vars == <<sym_items, sym_call>>

engine_vars == <<dataset, call>>

app_vars == <<loader, storage, session>>

vars == <<sm2_vars, sym_vars, engine_vars, app_vars>>

NoDataset == [diseases |-> <<>>, syndromes |-> <<>>]

\* null (no previous state, no call yet): a record with no field of a state.
Null == [null |-> TRUE]

-----------------------------------------------------------------------------
(* Small arithmetic helpers (Math.max, Math.min, Math.round, Math.ceil).   *)

Max(a, b) == IF a >= b THEN a ELSE b

Min(a, b) == IF a <= b THEN a ELSE b

\* Math.round(num / den) for num >= 0, den > 0: halves round up.
RoundDiv(num, den) == (2 * num + den) \div (2 * den)

\* Math.ceil(num / den) for den > 0.
CeilDiv(num, den) == -((-num) \div den)

-----------------------------------------------------------------------------
(* engine/spacedRepetition.ts                                              *)

DAY_MS == 86400000

DEFAULT_EASINESS_FACTOR == 250

EF_FLOOR == 130

\* Bounds of the model: the calls whose result would exceed them are not taken.
MaxInterval == 20

MaxEasiness == 280

\* The qualities passed by callers, some outside 0..5: the function clamps them.
MaxQuality == 6

Qualities == -1..MaxQuality

Timestamps == {0, 1000, DAY_MS + 7}

createInitialSm2State(base_timestamp) ==
    [easiness_factor |-> DEFAULT_EASINESS_FACTOR,
     interval |-> 1,
     repetition |-> 0,
     next_review_date |-> base_timestamp + DAY_MS]

\* Mutant: the thresholds are strict (an answer at exactly 20 s or 60 s falls
\* into the slower class).
getReviewQuality_StrictThresholds(is_correct, duration_ms) ==
    IF ~is_correct THEN 2
    ELSE IF duration_ms < 20000 THEN 5
    ELSE IF duration_ms < 60000 THEN 4
    ELSE 3

getReviewQuality(is_correct, duration_ms) ==
    IF ~is_correct THEN 2
    ELSE IF duration_ms <= 20000 THEN 5
    ELSE IF duration_ms <= 60000 THEN 4
    ELSE 3

\* The durations of an answer (submit_time - started_at), at and next to the
\* two thresholds.
Durations == {0, 20000, 20001, 60000, 60001}

\* Math.max(0, Math.min(5, quality))
BoundedQuality(quality) == Max(0, Min(5, quality))

\* 0.1 - (5 - q) * (0.08 + (5 - q) * 0.02), in hundredths.
EasinessDelta(q) == 10 - (5 - q) * (8 + (5 - q) * 2)

\* Mutant: the failure threshold off by one (quality 2 counts as a success).
NextRepetition_FailBelow2(current, q) ==
    IF q < 2 THEN 0 ELSE current.repetition + 1

\* The branch of lines 44-56: the new repetition and interval.
NextRepetition(current, q) ==
    IF q < 3 THEN 0 ELSE current.repetition + 1

\* Mutant: textbook SM-2, the interval grows by the easiness factor updated in
\* the same call.
NextInterval_UpdatedEasiness(current, q) ==
    IF q < 3 THEN 1
    ELSE IF current.repetition + 1 = 1 THEN 1
    ELSE IF current.repetition + 1 = 2 THEN 6
    ELSE Max(1, RoundDiv(current.interval
                         * Max(EF_FLOOR, current.easiness_factor + EasinessDelta(q)), 100))

\* Mutant: the product is rounded down (Math.floor for Math.round).
NextInterval_RoundsDown(current, q) ==
    IF q < 3 THEN 1
    ELSE IF current.repetition + 1 = 1 THEN 1
    ELSE IF current.repetition + 1 = 2 THEN 6
    ELSE Max(1, (current.interval * current.easiness_factor) \div 100)

NextInterval(current, q) ==
    IF q < 3 THEN 1
    ELSE IF current.repetition + 1 = 1 THEN 1
    ELSE IF current.repetition + 1 = 2 THEN 6
    ELSE Max(1, RoundDiv(current.interval * current.easiness_factor, 100))

\* Mutant: the floor of lines 59-61 left out.
NextEasiness_NoFloor(current, q) ==
    current.easiness_factor + EasinessDelta(q)

\* Lines 58-61: the update of the easiness factor and its floor.
NextEasiness(current, q) ==
    LET raised == current.easiness_factor + EasinessDelta(q)
    IN  IF raised < EF_FLOOR THEN EF_FLOOR ELSE raised

\* Line 38: previous ?? createInitialSm2State(base_timestamp)
CurrentState(previous, base_timestamp) ==
    IF previous = Null THEN createInitialSm2State(base_timestamp) ELSE previous

\* Mutant: the next review is always one day ahead, whatever the interval.
getNextSm2State_OneDayAhead(previous, quality, base_timestamp) ==
    LET current == CurrentState(previous, base_timestamp)
        bounded_quality == BoundedQuality(quality)
    IN  [easiness_factor |-> NextEasiness(current, bounded_quality),
         interval |-> NextInterval(current, bounded_quality),
         repetition |-> NextRepetition(current, bounded_quality),
         next_review_date |-> base_timestamp + DAY_MS]

getNextSm2State(previous, quality, base_timestamp) ==
    LET current == CurrentState(previous, base_timestamp)
        bounded_quality == BoundedQuality(quality)
        interval == NextInterval(current, bounded_quality)
    IN  [easiness_factor |-> NextEasiness(current, bounded_quality),
         interval |-> interval,
         repetition |-> NextRepetition(current, bounded_quality),
         next_review_date |-> base_timestamp + interval * DAY_MS]

\* The calls the bounded model takes: those whose result stays within
\* MaxInterval and MaxEasiness.
WithinBounds(previous, quality, base_timestamp) ==
    LET current == CurrentState(previous, base_timestamp)
        q == BoundedQuality(quality)
    IN  /\ NextInterval(current, q) <= MaxInterval
        /\ NextEasiness(current, q) <= MaxEasiness

\* One answered question: App.tsx reads the previous state of the key (null on
\* the first exposure), computes the next one and persists it.
Review(quality, base_timestamp) ==
    /\ WithinBounds(sm2_state, quality, base_timestamp)
    /\ LET next == getNextSm2State(sm2_state, quality, base_timestamp)
       IN  /\ sm2_call' = [previous |-> sm2_state,
                           quality |-> quality,
                           base_timestamp |-> base_timestamp,
                           answer |-> Null,
                           result |-> next]
           /\ sm2_state' = next
    /\ UNCHANGED <<sym_vars, engine_vars, app_vars>>

\* persistQuestionResult (App.tsx): the quality of an answered question is
\* getReviewQuality of its correctness and duration; the next state is computed
\* from the latest record of the key at submit_time and saved.
Answer(is_correct, duration_ms, submit_time) ==
    LET quality == getReviewQuality(is_correct, duration_ms)
    IN  /\ WithinBounds(sm2_state, quality, submit_time)
        /\ LET sm2 == getNextSm2State(sm2_state, quality, submit_time)
           IN  /\ sm2_call' = [previous |-> sm2_state,
                               quality |-> quality,
                               base_timestamp |-> submit_time,
                               answer |-> [is_correct |-> is_correct,
                                           duration_ms |-> duration_ms],
                               result |-> sm2]
               /\ sm2_state' = sm2
        /\ UNCHANGED <<sym_vars, engine_vars, app_vars>>

Sm2Init ==
    /\ sm2_state = Null
    /\ sm2_call = Null
    /\ sym_items = <<>>
    /\ sym_call = Null
    /\ dataset = NoDataset
    /\ call = Null
    /\ loader = Null
    /\ storage = Null
    /\ session = Null

Sm2Next ==
    \/ \E quality \in Qualities, base_timestamp \in Timestamps :
            Review(quality, base_timestamp)
    \/ \E is_correct \in BOOLEAN, duration_ms \in Durations, submit_time \in Timestamps :
            Answer(is_correct, duration_ms, submit_time)

-----------------------------------------------------------------------------
(* utils/random.ts                                                         *)
(* Math.random is a free choice.  A shuffle of n items draws one swap      *)
(* index per position: draws[i] is randomInt(0, i - 1) + 1, the (1-based)  *)
(* position exchanged with position i.                                     *)

RECURSIVE SwapDraws(_)
SwapDraws(n) ==
    IF n = 0 THEN {<<>>}
    ELSE {Append(d, k) : d \in SwapDraws(n - 1), k \in 1..n}

\* Lines 17-19 of shuffle: exchange next[index] and next[swap_index].
Swap(next, index, swap_index) ==
    [next EXCEPT ![index] = next[swap_index], ![swap_index] = next[index]]

\* The loop of shuffle, from position index down to the second.
RECURSIVE ShuffleFrom(_, _, _)
ShuffleFrom(next, index, draws) ==
    IF index <= 1 THEN next
    ELSE ShuffleFrom(Swap(next, index, draws[index]), index - 1, draws)

shuffle(items, draws) == ShuffleFrom(items, Len(items), draws)

\* Array.prototype.slice(0, count): a negative count counts from the end.
SliceTo(items, count) ==
    IF count >= 0 THEN SubSeq(items, 1, Min(count, Len(items)))
    ELSE SubSeq(items, 1, Max(0, Len(items) + count))

pickManyUnique(items, count, draws) ==
    IF count >= Len(items) THEN shuffle(items, draws)
    ELSE SliceTo(shuffle(items, draws), count)

\* randomInt(min, max) = Math.floor(Math.random() * (max - min + 1)) + min with
\* Math.random() in [0, 1): every value it can return.  With max = min - 1 the
\* product is 0 and the result is min.
randomInt(min, max) ==
    LET span == max - min + 1
    IN  IF span > 0 THEN min..(min + span - 1)
        ELSE IF span = 0 THEN {min}
        ELSE (min + span)..min

\* The value of reading an array outside its bounds.
Undefined == [undefined |-> TRUE]

\* pickOne: every outcome of items[randomInt(0, items.length - 1)].  An
\* outcome is the value returned; nothing in the function throws.
pickOne(items) ==
    { IF index + 1 \in 1..Len(items)
      THEN [threw |-> FALSE, value |-> items[index + 1]]
      ELSE [threw |-> FALSE, value |-> Undefined] :
        index \in randomInt(0, Len(items) - 1) }

\* One call of pickOne on a list.
PickOne ==
    /\ call = Null
    /\ \E outcome \in pickOne(sym_items) :
          call' = [fn |-> "pickOne",
                   items |-> sym_items,
                   threw |-> outcome.threw,
                   value |-> outcome.value]
    /\ UNCHANGED <<sym_items, dataset, sm2_vars, sym_call, app_vars>>

-----------------------------------------------------------------------------
(* engine/symptomSampler.ts                                                *)
(* A ratio is a number of RatioDen-ths.  The ratio argument is <<>> when   *)
(* omitted and <<r>> when given.                                           *)

MaxItems == 3

RatioDen == 10

SymptomTexts == {"a", "b", "c"}

SymptomItem == [text : SymptomTexts, is_key : BOOLEAN]

RECURSIVE SeqsUpTo(_, _)
SeqsUpTo(S, n) ==
    IF n = 0 THEN {<<>>}
    ELSE LET shorter == SeqsUpTo(S, n - 1)
         IN  shorter \cup {Append(q, x) : q \in {r \in shorter : Len(r) = n - 1}, x \in S}

ItemLists == SeqsUpTo(SymptomItem, MaxItems)

\* The ratios a caller passes, some outside [0, 1].
GivenRatios == -1..(RatioDen + 1)

\* randomFloat(0.6, 0.9)
DefaultRatios == {r \in 0..RatioDen : 6 * RatioDen <= 10 * r /\ 10 * r <= 9 * RatioDen}

IsKey(item) == item.is_key

IsOptional(item) == ~item.is_key

\* items.map((item) => item.text)
RECURSIVE Texts(_)
Texts(items) ==
    IF items = <<>> THEN <<>> ELSE <<Head(items).text>> \o Texts(Tail(items))

Range(q) == {q[i] : i \in 1..Len(q)}

\* The full-width comma that joins the sampled texts (line 181), written in ASCII.
Separator == ","

\* Array.prototype.join: the texts with the separator between them.
RECURSIVE Join(_, _)
Join(texts, separator) ==
    IF Len(texts) <= 1 THEN texts
    ELSE <<Head(texts), separator>> \o Join(Tail(texts), separator)

\* Mutant: the merge keeps the sampling order, key items first, then the
\* optional items as drawn.
Merge_SamplingOrder(items, picked_optional) ==
    SelectSeq(items, IsKey) \o picked_optional

\* Mutant: the filter tests the picked set alone and forgets is_key.
Merge_PickedOnly(items, picked_optional) ==
    LET picked_set == Range(Texts(picked_optional))
        Keep(item) == item.text \in picked_set
    IN  SelectSeq(items, Keep)

\* Lines 178-180: picked_set and the filter over the original list.
Merge(items, picked_optional) ==
    LET picked_set == Range(Texts(picked_optional))
        Keep(item) == item.is_key \/ item.text \in picked_set
    IN  SelectSeq(items, Keep)

sampleSymptoms(items, ratio, drawn_ratio, draws) ==
    LET target_ratio == IF ratio = <<>> THEN drawn_ratio ELSE ratio[1]
        key_items == SelectSeq(items, IsKey)
        optional_items == SelectSeq(items, IsOptional)
        min_total == Max(Len(key_items), CeilDiv(Len(items) * target_ratio, RatioDen))
        optional_count == Max(0, Min(Len(optional_items), min_total - Len(key_items)))
        picked_optional == pickManyUnique(optional_items, optional_count, draws)
        merged == Merge(items, picked_optional)
    IN  [sampled_text |-> Join(Texts(merged), Separator),
         sampled_items |-> merged,
         target_ratio |-> target_ratio,
         optional_count |-> optional_count,
         picked_optional |-> picked_optional]

\* One call of sampleSymptoms on the items of the syndrome.
SampleSymptoms(ratio) ==
    \E drawn_ratio \in DefaultRatios,
       draws \in SwapDraws(Len(SelectSeq(sym_items, IsOptional))) :
        /\ sym_call' = [items |-> sym_items,
                        ratio |-> ratio,
                        result |-> sampleSymptoms(sym_items, ratio, drawn_ratio, draws)]
        /\ UNCHANGED <<sym_items, sm2_vars, engine_vars, app_vars>>

SamplerInit ==
    /\ sym_items \in ItemLists
    /\ sym_call = Null
    /\ sm2_state = Null
    /\ sm2_call = Null
    /\ dataset = NoDataset
    /\ call = Null
    /\ loader = Null
    /\ storage = Null
    /\ session = Null

SamplerNext ==
    \E ratio \in {<<>>} \cup {<<r>> : r \in GivenRatios} : SampleSymptoms(ratio)

\* pickOne is generic: the lists it is called on here are lists of symptom
\* items, the empty list among them.
RandomInit ==
    /\ sym_items \in ItemLists
    /\ sym_call = Null
    /\ sm2_state = Null
    /\ sm2_call = Null
    /\ dataset = NoDataset
    /\ call = Null
    /\ loader = Null
    /\ storage = Null
    /\ session = Null

RandomNext == PickOne

-----------------------------------------------------------------------------
(* The dataset (types.ts).                                                 *)
(* A string is a sequence of tokens; the token " " is white space, so that *)
(* trim() has something to remove.  The four probed fields of a syndrome   *)
(* carry the tokens of their own field ("n1" a name, "t1" a treatment      *)
(* method, "p1" a prescription, "g1" a pathogenesis).                      *)

\* String.prototype.trim
RECURSIVE TrimStart(_)
TrimStart(str) ==
    IF str # <<>> /\ Head(str) = " " THEN TrimStart(Tail(str)) ELSE str

RECURSIVE TrimEnd(_)
TrimEnd(str) ==
    IF str # <<>> /\ str[Len(str)] = " "
    THEN TrimEnd(SubSeq(str, 1, Len(str) - 1))
    ELSE str

Trim(str) == TrimEnd(TrimStart(str))

\* The text of a field: the raw pattern with every token marked by the field.
FieldText(tag, raw) ==
    [i \in 1..Len(raw) |-> IF raw[i] = " " THEN " " ELSE tag \o raw[i]]

\* How the syndromes are spread over the diseases.  D9 is a disease id that
\* no record of dataset.diseases carries.
\* Four siblings for every syndrome of D1; one sibling and four syndromes in
\* the other disease; a disease D3 that is related to none and a syndrome of
\* the unlisted disease D9.
ManySiblings == <<"D1", "D1", "D1", "D1", "D1", "D2">>

FewSiblings == <<"D1", "D1", "D2", "D2", "D2", "D2">>

Scattered == <<"D1", "D1", "D2", "D3", "D9">>

SmallLayouts ==
    { <<"D1">>, <<"D1", "D1">>, <<"D1", "D2">>, <<"D1", "D1", "D2">> }

\* The values of the four fields over the syndromes S1..S6.  Names are all
\* distinct; the second prescription equals the first; treatment methods
\* repeat; pathogeneses come padded, empty and blank.
NamePattern == << <<"1">>, <<"2">>, <<"3">>, <<"4">>, <<"5">>, <<"6">> >>

PrescriptionPattern == << <<"1">>, <<"1">>, <<"2">>, <<"3">>, <<"4">>, <<"5">> >>

TreatmentPattern == << <<"1">>, <<"2">>, <<"2">>, <<"3">>, <<"3">>, <<"1">> >>

PathogenesisPattern == << <<" ", "1">>, <<"1">>, <<"2", " ">>, <<"2">>, <<>>, <<" ">> >>

SyndromeIds == <<"S1", "S2", "S3", "S4", "S5", "S6">>

\* A syndrome id that no syndrome of any dataset carries.
MissingSyndromeId == "S0"

MakeSyndrome(i, disease_id) ==
    [syndrome_id |-> SyndromeIds[i],
     disease_id |-> disease_id,
     syndrome_name |-> FieldText("n", NamePattern[i]),
     treatment_method |-> FieldText("t", TreatmentPattern[i]),
     prescription |-> [primary |-> FieldText("p", PrescriptionPattern[i]),
                       alternative |-> IF i = 2 THEN <<"p9">> ELSE <<>>],
     pathogenesis |-> FieldText("g", PathogenesisPattern[i])]

MakeDisease(disease_id, related) ==
    [disease_id |-> disease_id,
     disease_name |-> <<"name of " \o disease_id>>,
     related_diseases |-> related]

\* D1 and D2 related to each other, or no disease related to any.
MakeDiseases(related) ==
    << MakeDisease("D1", IF related THEN <<"D2">> ELSE <<>>),
       MakeDisease("D2", IF related THEN <<"D1">> ELSE <<>>),
       MakeDisease("D3", <<>>) >>

MakeDataset(layout, related) ==
    [diseases |-> MakeDiseases(related),
     syndromes |-> [i \in 1..Len(layout) |-> MakeSyndrome(i, layout[i])]]

BigDatasets ==
    { MakeDataset(ManySiblings, TRUE), MakeDataset(ManySiblings, FALSE),
      MakeDataset(FewSiblings, TRUE), MakeDataset(Scattered, FALSE) }

SmallDatasets ==
    { MakeDataset(layout, related) : layout \in SmallLayouts, related \in BOOLEAN }

Datasets == BigDatasets \cup SmallDatasets

-----------------------------------------------------------------------------
(* engine/distractorGenerator.ts                                           *)

DistractorFields == {"syndrome_name", "treatment_method", "prescription", "pathogenesis"}

getFieldValue(syndrome, field) ==
    IF field = "syndrome_name" THEN syndrome.syndrome_name
    ELSE IF field = "treatment_method" THEN syndrome.treatment_method
    ELSE IF field = "prescription" THEN syndrome.prescription.primary
    ELSE syndrome.pathogenesis

\* Array.prototype.find / findIndex: the first position that satisfies the
\* test, 0 when none does.
FirstIndex(items, Test(_)) ==
    LET hits == {i \in 1..Len(items) : Test(items[i])}
    IN  IF hits = {} THEN 0 ELSE CHOOSE i \in hits : \A j \in hits : i <= j

\* The position of the syndrome with this id in syndromes, 0 when absent.
FindSyndrome(syndromes, syndrome_id) ==
    LET HasId(item) == item.syndrome_id = syndrome_id
    IN  FirstIndex(syndromes, HasId)

\* getDiseaseById: the position of the disease, 0 when undefined.
getDiseaseById(diseases, disease_id) ==
    LET HasId(item) == item.disease_id = disease_id
    IN  FirstIndex(diseases, HasId)

\* items.map((item) => getFieldValue(item, field))
FieldValues(items, field) ==
    [i \in 1..Len(items) |-> getFieldValue(items[i], field)]

\* Mutant: a value already among the candidates is pushed again.
RECURSIVE pushUnique_KeepsRepeats(_, _, _)
pushUnique_KeepsRepeats(candidates, next_values, excluded) ==
    IF next_values = <<>> THEN candidates
    ELSE LET normalized == Trim(Head(next_values))
         IN  IF normalized = <<>> \/ normalized \in excluded
             THEN pushUnique_KeepsRepeats(candidates, Tail(next_values), excluded)
             ELSE pushUnique_KeepsRepeats(Append(candidates, normalized),
                                          Tail(next_values), excluded)

\* Mutant: the untrimmed value is tested against the excluded set.
RECURSIVE pushUnique_RawExcluded(_, _, _)
pushUnique_RawExcluded(candidates, next_values, excluded) ==
    IF next_values = <<>> THEN candidates
    ELSE LET value == Head(next_values)
             normalized == Trim(value)
         IN  IF normalized = <<>> \/ value \in excluded
             THEN pushUnique_RawExcluded(candidates, Tail(next_values), excluded)
             ELSE IF normalized \in Range(candidates)
             THEN pushUnique_RawExcluded(candidates, Tail(next_values), excluded)
             ELSE pushUnique_RawExcluded(Append(candidates, normalized),
                                         Tail(next_values), excluded)

\* pushUnique returns the candidates it leaves behind (the code extends the
\* array in place).
RECURSIVE pushUnique(_, _, _)
pushUnique(candidates, next_values, excluded) ==
    IF next_values = <<>> THEN candidates
    ELSE LET normalized == Trim(Head(next_values))
         IN  IF normalized = <<>> \/ normalized \in excluded
             THEN pushUnique(candidates, Tail(next_values), excluded)
             ELSE IF normalized \in Range(candidates)
             THEN pushUnique(candidates, Tail(next_values), excluded)
             ELSE pushUnique(Append(candidates, normalized), Tail(next_values), excluded)

\* Lines 483-487: the values of the other syndromes of the target's disease.
SameDiseaseValues(syndromes, target, field) ==
    LET Sibling(item) == /\ item.disease_id = target.disease_id
                         /\ item.syndrome_id # target.syndrome_id
    IN  FieldValues(SelectSeq(syndromes, Sibling), field)

\* Lines 491-495: the values of the syndromes of the related diseases.
RelatedValues(diseases, syndromes, target, field) ==
    LET d == getDiseaseById(diseases, target.disease_id)
        related_ids == IF d = 0 THEN <<>> ELSE diseases[d].related_diseases
        Related(item) == item.disease_id \in Range(related_ids)
    IN  FieldValues(SelectSeq(syndromes, Related), field)

\* Mutant: no global tier, the candidates end with the related diseases.
DistractorCandidates_NoGlobalTier(diseases, syndromes, target, field, correct_answer, count) ==
    LET excluded == {Trim(correct_answer)}
        tier1 == pushUnique(<<>>, SameDiseaseValues(syndromes, target, field), excluded)
    IN  IF Len(tier1) < count
        THEN pushUnique(tier1, RelatedValues(diseases, syndromes, target, field), excluded)
        ELSE tier1

\* Mutant: the related and the global tier are consulted whatever the count of
\* candidates so far.
DistractorCandidates_AllTiers(diseases, syndromes, target, field, correct_answer, count) ==
    LET excluded == {Trim(correct_answer)}
        tier1 == pushUnique(<<>>, SameDiseaseValues(syndromes, target, field), excluded)
        tier2 == pushUnique(tier1, RelatedValues(diseases, syndromes, target, field), excluded)
    IN  pushUnique(tier2, FieldValues(syndromes, field), excluded)

\* Lines 480-503: the candidates after the three tiers.
DistractorCandidates(diseases, syndromes, target, field, correct_answer, count) ==
    LET excluded == {Trim(correct_answer)}
        tier1 == pushUnique(<<>>, SameDiseaseValues(syndromes, target, field), excluded)
        tier2 == IF Len(tier1) < count
                 THEN pushUnique(tier1, RelatedValues(diseases, syndromes, target, field),
                                 excluded)
                 ELSE tier1
    IN  IF Len(tier2) < count
        THEN pushUnique(tier2, FieldValues(syndromes, field), excluded)
        ELSE tier2

\* The candidates of a call; none when the target syndrome does not exist.
CandidatesOf(diseases, syndromes, syndrome_id, field, correct_answer, count) ==
    LET t == FindSyndrome(syndromes, syndrome_id)
    IN  IF t = 0 THEN <<>>
        ELSE DistractorCandidates(diseases, syndromes, syndromes[t], field,
                                  correct_answer, count)

\* draws: the swap indexes of the shuffle inside pickManyUnique.
generateDistractors(diseases, syndromes, syndrome_id, field, correct_answer, count, draws) ==
    IF FindSyndrome(syndromes, syndrome_id) = 0 THEN <<>>
    ELSE pickManyUnique(CandidatesOf(diseases, syndromes, syndrome_id, field,
                                     correct_answer, count),
                        count, draws)

\* The counts passed to generateDistractors; the question engine passes 4.
MaxPick == 5

PickCounts == 0..MaxPick

\* The correct answers passed: the target's own value of the field (as the
\* question engine does), that value with white space around it, or a value
\* of another field.
CorrectAnswers(syndromes, syndrome_id, field) ==
    LET t == FindSyndrome(syndromes, syndrome_id)
    IN  IF t = 0 THEN {<<"n1">>}
        ELSE {getFieldValue(syndromes[t], field),
              <<" ">> \o getFieldValue(syndromes[t], field) \o <<" ">>,
              <<"x">>}

\* The engine's functions are pure and the dataset is read-only: a behaviour
\* takes one call on the dataset it started with.
GenerateDistractors(syndrome_id, field, count) ==
  /\ call = Null
  /\ \E correct_answer \in CorrectAnswers(dataset.syndromes, syndrome_id, field) :
      \E draws \in SwapDraws(Len(CandidatesOf(dataset.diseases, dataset.syndromes,
                                               syndrome_id, field, correct_answer, count))) :
        /\ call' = [fn |-> "generateDistractors",
                    syndrome_id |-> syndrome_id,
                    field |-> field,
                    correct_answer |-> correct_answer,
                    count |-> count,
                    result |-> generateDistractors(dataset.diseases, dataset.syndromes,
                                                   syndrome_id, field, correct_answer,
                                                   count, draws)]
        /\ UNCHANGED <<dataset, sm2_vars, sym_vars, app_vars>>

-----------------------------------------------------------------------------
(* engine/questionEngine.ts                                                *)
(* The stem keeps what the archetype puts into it: whether the case        *)
(* vignette leads it, the disease name and the field it quotes.  The       *)
(* free text of the vignette (gender, age, duration, season, the sampled   *)
(* symptoms) and the question id (a time stamp and a random number) are    *)
(* not modelled.                                                           *)

QuestionTypes == <<"Q1", "Q2", "Q3", "Q4", "Q5", "Q6">>

\* The name getDiseaseName falls back to.
UnknownDiseaseName == <<"unknown disease">>

getDiseaseName(diseases, disease_id) ==
    LET d == getDiseaseById(diseases, disease_id)
    IN  IF d = 0 THEN UnknownDiseaseName ELSE diseases[d].disease_name

\* String.fromCharCode(65 + index)
OptionKeys == <<"A", "B", "C", "D", "E", "F", "G">>

\* Mutant: the shuffled list is cut to four options.
createOptions_CutToFour(correct, distractors, draws) ==
    LET all_options == SliceTo(shuffle(<<correct>> \o distractors, draws), 4)
        IsCorrect(item) == item = correct
    IN  [options |-> [i \in 1..Len(all_options) |->
                        [key |-> OptionKeys[i], text |-> all_options[i]]],
         correct_index |-> FirstIndex(all_options, IsCorrect) - 1]

\* Mutant: correct_index is the position of the correct answer before the
\* shuffle.
createOptions_IndexBeforeShuffle(correct, distractors, draws) ==
    LET all_options == SliceTo(shuffle(<<correct>> \o distractors, draws), 5)
    IN  [options |-> [i \in 1..Len(all_options) |->
                        [key |-> OptionKeys[i], text |-> all_options[i]]],
         correct_index |-> 0]

\* correct_index is zero-based; findIndex gives -1 when nothing matches.
createOptions(correct, distractors, draws) ==
    LET all_options == SliceTo(shuffle(<<correct>> \o distractors, draws), 5)
        IsCorrect(item) == item = correct
    IN  [options |-> [i \in 1..Len(all_options) |->
                        [key |-> OptionKeys[i], text |-> all_options[i]]],
         correct_index |-> FirstIndex(all_options, IsCorrect) - 1]

buildExplanation(syndrome, correct_answer) ==
    LET secondary == IF syndrome.prescription.alternative # <<>>
                     THEN <<"(or">> \o syndrome.prescription.alternative \o <<")">>
                     ELSE <<>>
    IN  [correct_answer |-> correct_answer,
         pathogenesis |-> syndrome.pathogenesis,
         treatment_method |-> syndrome.treatment_method,
         prescription |-> syndrome.prescription.primary \o secondary]

\* Lines 59-83: the correct answer of each archetype.
CorrectAnswerOf(syndrome, question_type) ==
    IF question_type = "Q1" THEN syndrome.syndrome_name
    ELSE IF question_type = "Q2" THEN syndrome.treatment_method
    ELSE IF question_type = "Q3" THEN syndrome.prescription.primary
    ELSE IF question_type = "Q4" THEN syndrome.pathogenesis
    ELSE IF question_type = "Q5" THEN syndrome.syndrome_name
    ELSE syndrome.prescription.primary

\* Lines 59-83: the field the distractors of each archetype are drawn from.
DistractorFieldOf(question_type) ==
    IF question_type = "Q1" THEN "syndrome_name"
    ELSE IF question_type = "Q2" THEN "treatment_method"
    ELSE IF question_type = "Q3" THEN "prescription"
    ELSE IF question_type = "Q4" THEN "pathogenesis"
    ELSE IF question_type = "Q5" THEN "syndrome_name"
    ELSE "prescription"

\* Lines 59-83: the stem of each archetype.
StemOf(diseases, syndrome, question_type) ==
    LET disease_name == getDiseaseName(diseases, syndrome.disease_id)
    IN  IF question_type \in {"Q1", "Q2", "Q3"}
        THEN [case_prefix |-> TRUE, disease_name |-> disease_name, quoted |-> <<>>]
        ELSE IF question_type = "Q4"
        THEN [case_prefix |-> FALSE, disease_name |-> disease_name,
              quoted |-> syndrome.syndrome_name]
        ELSE IF question_type = "Q5"
        THEN [case_prefix |-> FALSE, disease_name |-> disease_name,
              quoted |-> syndrome.prescription.primary]
        ELSE [case_prefix |-> FALSE, disease_name |-> disease_name,
              quoted |-> syndrome.treatment_method]

\* Every list a call of generateDistractors can return, over the draws of
\* its shuffle.
DistractorOutcomes(diseases, syndromes, syndrome_id, field, correct_answer, count) ==
    { generateDistractors(diseases, syndromes, syndrome_id, field, correct_answer,
                          count, draws) :
        draws \in SwapDraws(Len(CandidatesOf(diseases, syndromes, syndrome_id, field,
                                              correct_answer, count))) }

\* Lines 93-104: the question built from the distractors returned.
\* option_draws: the swap indexes of the shuffle of the options.
QuestionWith(ds, syndrome, question_type, distractors, option_draws) ==
    LET correct_answer == CorrectAnswerOf(syndrome, question_type)
        made == createOptions(correct_answer, distractors, option_draws)
    IN  [question_type |-> question_type,
         stem |-> StemOf(ds.diseases, syndrome, question_type),
         options |-> made.options,
         correct_index |-> made.correct_index,
         syndrome_id |-> syndrome.syndrome_id,
         disease_id |-> syndrome.disease_id,
         explanation |-> buildExplanation(syndrome, correct_answer)]

\* Every question generateByType can return, over the draws of its two
\* shuffles: the distractor lists of line 85 first, then the options of each.
generateByType(ds, syndrome, question_type) ==
    LET distractor_lists ==
            DistractorOutcomes(ds.diseases, ds.syndromes, syndrome.syndrome_id,
                               DistractorFieldOf(question_type),
                               CorrectAnswerOf(syndrome, question_type), 4)
    IN  UNION { { QuestionWith(ds, syndrome, question_type, distractors, option_draws) :
                    option_draws \in SwapDraws(1 + Len(distractors)) } :
                distractors \in distractor_lists }

\* generateByType(dataset, syndrome, pickOne(allowed_types))
PickedTypeOutcomes(ds, syndrome, allowed_types) ==
    UNION { generateByType(ds, syndrome, allowed_types[t]) : t \in 1..Len(allowed_types) }

\* The question_type argument: <<>> when omitted, <<type>> when given.
generateQuestion(syndrome_id, question_type) ==
    /\ call = Null
    /\ LET s == FindSyndrome(dataset.syndromes, syndrome_id)
           allowed == IF question_type = <<>> THEN QuestionTypes ELSE question_type
       IN  IF s = 0
           THEN call' = [fn |-> "generateQuestion",
                         syndrome_id |-> syndrome_id,
                         question_type |-> question_type,
                         threw |-> TRUE,
                         questions |-> <<>>]
           ELSE \E question \in PickedTypeOutcomes(dataset, dataset.syndromes[s], allowed) :
                   call' = [fn |-> "generateQuestion",
                            syndrome_id |-> syndrome_id,
                            question_type |-> question_type,
                            threw |-> FALSE,
                            questions |-> <<question>>]
    /\ UNCHANGED <<dataset, sm2_vars, sym_vars, app_vars>>

\* The counts and the type filters passed to the batch calls.
MaxCount == 2

Counts == 0..MaxCount

TypeFilters == {<<>>, <<"Q2">>, <<"Q4", "Q5">>}

\* Mutant: the filter is ignored, all six types are allowed.
AllowedTypes_IgnoresFilter(type_filter) ==
    QuestionTypes

\* Line 129 and line 152: the filter, or all six types when it is empty.
AllowedTypes(type_filter) ==
    IF Len(type_filter) # 0 THEN type_filter ELSE QuestionTypes

\* Lines 142-146 and 156-159: random (syndrome, type) pairs until count is met.
RECURSIVE PaddingOutcomes(_, _, _, _, _)
PaddingOutcomes(ds, pool, allowed_types, results, count) ==
    IF Len(results) >= count THEN {results}
    ELSE UNION { PaddingOutcomes(ds, pool, allowed_types, Append(results, question), count) :
                   question \in UNION { PickedTypeOutcomes(ds, pool[k], allowed_types) :
                                          k \in 1..Len(pool) } }

\* Lines 133-139: one question per syndrome of the disease, returning as soon
\* as count is reached; then the padding.
RECURSIVE CoverageOutcomes(_, _, _, _, _, _)
CoverageOutcomes(ds, pool, rest, allowed_types, results, count) ==
    IF rest = <<>> THEN PaddingOutcomes(ds, pool, allowed_types, results, count)
    ELSE UNION { IF Len(results) + 1 >= count
                 THEN {Append(results, question)}
                 ELSE CoverageOutcomes(ds, pool, Tail(rest), allowed_types,
                                       Append(results, question), count) :
                   question \in PickedTypeOutcomes(ds, Head(rest), allowed_types) }

\* Mutant: no coverage pass, every question is a random (syndrome, type) pair.
generateByDiseaseOutcomes_AllRandom(ds, disease_id, count, type_filter) ==
    LET OfDisease(item) == item.disease_id = disease_id
        disease_syndromes == SelectSeq(ds.syndromes, OfDisease)
    IN  IF Len(disease_syndromes) = 0 THEN {<<>>}
        ELSE PaddingOutcomes(ds, disease_syndromes, AllowedTypes(type_filter), <<>>, count)

\* Every list generateByDisease can return.
generateByDiseaseOutcomes(ds, disease_id, count, type_filter) ==
    LET OfDisease(item) == item.disease_id = disease_id
        disease_syndromes == SelectSeq(ds.syndromes, OfDisease)
    IN  IF Len(disease_syndromes) = 0 THEN {<<>>}
        ELSE CoverageOutcomes(ds, disease_syndromes, disease_syndromes,
                              AllowedTypes(type_filter), <<>>, count)

\* The batch calls are taken on the small datasets.
generateByDisease(disease_id, count, type_filter) ==
    /\ call = Null
    /\ dataset \in SmallDatasets
    /\ \E questions \in generateByDiseaseOutcomes(dataset, disease_id, count, type_filter) :
          call' = [fn |-> "generateByDisease",
                   disease_id |-> disease_id,
                   count |-> count,
                   type_filter |-> type_filter,
                   threw |-> FALSE,
                   questions |-> questions]
    /\ UNCHANGED <<dataset, sm2_vars, sym_vars, app_vars>>

\* selected_syndromes.map(...): one question per selected syndrome, in order.
RECURSIVE MapOutcomes(_, _, _)
MapOutcomes(ds, selected, allowed_types) ==
    IF selected = <<>> THEN {<<>>}
    ELSE { <<question>> \o rest :
             question \in PickedTypeOutcomes(ds, Head(selected), allowed_types),
             rest \in MapOutcomes(ds, Tail(selected), allowed_types) }

\* Mutant: no draw of distinct syndromes, every question is a random
\* (syndrome, type) pair.
generateRandomOutcomes_WithReplacement(ds, count, type_filter) ==
    PaddingOutcomes(ds, ds.syndromes, AllowedTypes(type_filter), <<>>, count)

\* Every list generateRandom can return (on a dataset that has syndromes).
generateRandomOutcomes(ds, count, type_filter) ==
    UNION { UNION { PaddingOutcomes(ds, ds.syndromes, AllowedTypes(type_filter),
                                    results, count) :
                      results \in MapOutcomes(
                          ds,
                          pickManyUnique(ds.syndromes, Min(count, Len(ds.syndromes)), draws),
                          AllowedTypes(type_filter)) } :
              draws \in SwapDraws(Len(ds.syndromes)) }

generateRandom(count, type_filter) ==
    /\ call = Null
    /\ dataset \in SmallDatasets
    /\ \E questions \in generateRandomOutcomes(dataset, count, type_filter) :
          call' = [fn |-> "generateRandom",
                   count |-> count,
                   type_filter |-> type_filter,
                   threw |-> FALSE,
                   questions |-> questions]
    /\ UNCHANGED <<dataset, sm2_vars, sym_vars, app_vars>>

DiseaseIds == {"D1", "D2", "D3", "D9"}

-----------------------------------------------------------------------------
(* engine/caseGenerator.ts                                                 *)
(* A case keeps the ids and the standard answer.  The free text of the     *)
(* vignette (case_text) and the case id (a time stamp and a random number) *)
(* are not modelled.                                                       *)

\* The outcome of a call: it threw "not found" and returned nothing, or it
\* returned its cases.
Thrown == [threw |-> TRUE, cases |-> <<>>]

Returned(cases) == [threw |-> FALSE, cases |-> cases]

buildStandardAnswer(disease, syndrome) ==
    LET secondary == IF syndrome.prescription.alternative # <<>>
                     THEN <<"(or">> \o syndrome.prescription.alternative \o <<")">>
                     ELSE <<>>
    IN  [disease_name |-> disease.disease_name,
         syndrome_name |-> syndrome.syndrome_name,
         diagnosis_text |-> disease.disease_name \o <<"/">> \o syndrome.syndrome_name,
         pathogenesis |-> syndrome.pathogenesis,
         treatment_method |-> syndrome.treatment_method,
         prescription |-> syndrome.prescription.primary \o secondary]

\* Mutant: a disease that does not resolve is replaced by a placeholder, as
\* getDiseaseName does, and the case is returned.
CaseQuestionOf_DefaultsDisease(ds, syndrome) ==
    LET d == getDiseaseById(ds.diseases, syndrome.disease_id)
        disease == IF d = 0
                   THEN [disease_id |-> syndrome.disease_id,
                         disease_name |-> UnknownDiseaseName,
                         related_diseases |-> <<>>]
                   ELSE ds.diseases[d]
    IN  Returned(<<[syndrome_id |-> syndrome.syndrome_id,
                    disease_id |-> syndrome.disease_id,
                    standard_answer |-> buildStandardAnswer(disease, syndrome)]>>)

\* generateCaseQuestion: the case of a syndrome, or the throw.
CaseQuestionOf(ds, syndrome) ==
    LET d == getDiseaseById(ds.diseases, syndrome.disease_id)
    IN  IF d = 0 THEN Thrown
        ELSE Returned(<<[syndrome_id |-> syndrome.syndrome_id,
                         disease_id |-> syndrome.disease_id,
                         standard_answer |-> buildStandardAnswer(ds.diseases[d],
                                                                 syndrome)]>>)

\* generateCaseById
CaseByIdOf(ds, syndrome_id) ==
    LET s == FindSyndrome(ds.syndromes, syndrome_id)
    IN  IF s = 0 THEN Thrown ELSE CaseQuestionOf(ds, ds.syndromes[s])

\* picked.map((syndrome) => generateCaseQuestion(dataset, syndrome)): the
\* first throw ends the whole call.
MapCases(ds, picked) ==
    LET made == [i \in 1..Len(picked) |-> CaseQuestionOf(ds, picked[i])]
    IN  IF \E i \in 1..Len(picked) : made[i].threw THEN Thrown
        ELSE Returned([i \in 1..Len(picked) |-> made[i].cases[1]])

\* The record of a call: the function, its argument and its outcome.
CaseCall(fn, argument, outcome) ==
    [fn |-> fn,
     argument |-> argument,
     threw |-> outcome.threw,
     cases |-> outcome.cases]

\* A direct call of generateCaseQuestion on the s-th syndrome of the dataset.
generateCaseQuestion(s) ==
    /\ call = Null
    /\ s \in 1..Len(dataset.syndromes)
    /\ call' = CaseCall("generateCaseQuestion", dataset.syndromes[s].syndrome_id,
                        CaseQuestionOf(dataset, dataset.syndromes[s]))
    /\ UNCHANGED <<dataset, sm2_vars, sym_vars, app_vars>>

generateCaseById(syndrome_id) ==
    /\ call = Null
    /\ call' = CaseCall("generateCaseById", syndrome_id, CaseByIdOf(dataset, syndrome_id))
    /\ UNCHANGED <<dataset, sm2_vars, sym_vars, app_vars>>

generateCasesByDisease(disease_id) ==
    /\ call = Null
    /\ LET OfDisease(item) == item.disease_id = disease_id
           disease_syndromes == SelectSeq(dataset.syndromes, OfDisease)
       IN  call' = CaseCall("generateCasesByDisease", disease_id,
                            MapCases(dataset, disease_syndromes))
    /\ UNCHANGED <<dataset, sm2_vars, sym_vars, app_vars>>

generateAllCases ==
    /\ call = Null
    /\ call' = CaseCall("generateAllCases", <<>>, MapCases(dataset, dataset.syndromes))
    /\ UNCHANGED <<dataset, sm2_vars, sym_vars, app_vars>>

\* The patient of a case (lines 21-162).  A disease name is a sequence of
\* characters, written in ASCII: "jing" is the character of menses, "dai" of
\* leucorrhoea, "tai" of the foetus, "chan" of childbirth, "yun" of pregnancy,
\* "bu" "yun" infertility, "zheng" "jia" abdominal mass, "ru" "pi" breast
\* lump, "jing_essence" "long" prostatic hyperplasia; "x" is any other
\* character.  Genders are "F" and "M"; the surname is not modelled.
FEMALE_ONLY_DISEASE_IDS ==
    {"D036", "D042", "D043", "D044", "D045", "D046", "D047", "D048", "D049", "D050"}

MALE_ONLY_DISEASE_IDS == {"D040"}

PEDIATRIC_DISEASE_IDS ==
    {"D051", "D052", "D053", "D054", "D055", "D056", "D057", "D058", "D059"}

FEMALE_AGE_RANGES ==
    ("D036" :> <<25, 50>>) @@ ("D042" :> <<18, 50>>) @@ ("D043" :> <<16, 42>>) @@
    ("D044" :> <<14, 45>>) @@ ("D045" :> <<45, 55>>) @@ ("D046" :> <<20, 50>>) @@
    ("D047" :> <<23, 38>>) @@ ("D048" :> <<23, 38>>) @@ ("D049" :> <<24, 38>>) @@
    ("D050" :> <<25, 50>>)

PEDIATRIC_AGE_RANGES ==
    ("D051" :> [min_months |-> 2, max_months |-> 72]) @@
    ("D052" :> [min_months |-> 3, max_months |-> 36]) @@
    ("D053" :> [min_months |-> 6, max_months |-> 72]) @@
    ("D054" :> [min_months |-> 1, max_months |-> 12]) @@
    ("D055" :> [min_months |-> 12, max_months |-> 120]) @@
    ("D056" :> [min_months |-> 36, max_months |-> 144]) @@
    ("D057" :> [min_months |-> 6, max_months |-> 60]) @@
    ("D058" :> [min_months |-> 6, max_months |-> 60]) @@
    ("D059" :> [min_months |-> 24, max_months |-> 144])

\* RegExp.test of a pattern of one character, and of two characters in a row.
HasChar(text, char) == \E i \in 1..Len(text) : text[i] = char

HasPair(text, first, second) ==
    \E i \in 1..(Len(text) - 1) : text[i] = first /\ text[i + 1] = second

isFemaleOnlyByName(disease_name) ==
    \/ \E char \in {"jing", "dai", "tai", "chan", "yun"} : HasChar(disease_name, char)
    \/ HasPair(disease_name, "bu", "yun")
    \/ HasPair(disease_name, "zheng", "jia")
    \/ HasPair(disease_name, "ru", "pi")

isMaleOnlyByName(disease_name) == HasPair(disease_name, "jing_essence", "long")

\* sampleGender: every gender it can return.
sampleGender(is_female_only) ==
    IF is_female_only THEN {"F"} ELSE {"M", "F"}

\* resolveGender: every gender it can return.
resolveGender(disease) ==
    IF disease.disease_id \in FEMALE_ONLY_DISEASE_IDS \/ isFemaleOnlyByName(disease.disease_name)
    THEN {"F"}
    ELSE IF disease.disease_id \in MALE_ONLY_DISEASE_IDS
            \/ isMaleOnlyByName(disease.disease_name)
    THEN {"M"}
    ELSE sampleGender(FALSE)

\* The qualifier of lines 137-150: its kind and its number, <<>> when none.
ExtraContexts(disease_id) ==
    IF disease_id = "D049" THEN {<<"years without child", n>> : n \in randomInt(1, 5)}
    ELSE IF disease_id = "D048" THEN {<<"days after delivery", n>> : n \in randomInt(2, 14)}
    ELSE IF disease_id = "D047" THEN {<<"weeks pregnant", n>> : n \in randomInt(8, 32)}
    ELSE {<<>>}

\* Lines 119-127: the patient of a pediatric disease.
PediatricDemographics(disease) ==
    LET range == IF disease.disease_id \in DOMAIN PEDIATRIC_AGE_RANGES
                 THEN PEDIATRIC_AGE_RANGES[disease.disease_id]
                 ELSE [min_months |-> 6, max_months |-> 120]
    IN  { IF months < 12
          THEN [gender |-> gender, age |-> months, age_unit |-> "months",
                extra_context |-> <<>>]
          ELSE [gender |-> gender, age |-> months \div 12, age_unit |-> "years",
                extra_context |-> <<>>] :
            months \in randomInt(range.min_months, range.max_months),
            gender \in sampleGender(FALSE) }

\* resolveDemographics: every patient it can return.
resolveDemographics(disease) ==
    IF disease.disease_id \in PEDIATRIC_DISEASE_IDS THEN PediatricDemographics(disease)
    ELSE IF disease.disease_id \in FEMALE_ONLY_DISEASE_IDS
    THEN LET range == IF disease.disease_id \in DOMAIN FEMALE_AGE_RANGES
                      THEN FEMALE_AGE_RANGES[disease.disease_id]
                      ELSE <<20, 50>>
         IN  { [gender |-> gender, age |-> age, age_unit |-> "years",
                extra_context |-> extra_context] :
                 gender \in resolveGender(disease),
                 age \in randomInt(range[1], range[2]),
                 extra_context \in ExtraContexts(disease.disease_id) }
    ELSE IF disease.disease_id = "D040"
    THEN { [gender |-> "M", age |-> age, age_unit |-> "years", extra_context |-> <<>>] :
             age \in randomInt(55, 78) }
    ELSE { [gender |-> gender, age |-> age, age_unit |-> "years", extra_context |-> <<>>] :
             gender \in resolveGender(disease), age \in randomInt(22, 72) }

\* The diseases a patient is made for: the ids of the three fixed sets and an
\* id of none of them, under names with and without the markers.
DemographicIds ==
    FEMALE_ONLY_DISEASE_IDS \cup MALE_ONLY_DISEASE_IDS \cup PEDIATRIC_DISEASE_IDS \cup {"D001"}

DemographicNames ==
    { <<"x", "x">>, <<"x", "jing">>, <<"dai", "x">>, <<"bu", "yun">>, <<"zheng", "jia">>,
      <<"ru", "pi">>, <<"ru", "x">>, <<"jing_essence", "long">>, <<"jing_essence", "x">> }

DemographicDatasets ==
    { [diseases |-> <<[disease_id |-> id, disease_name |-> name, related_diseases |-> <<>>]>>,
       syndromes |-> <<>>] : id \in DemographicIds, name \in DemographicNames }

\* Line 364 of generateCaseQuestion: the patient of the disease of the case.
ResolveDemographics ==
    /\ call = Null
    /\ Len(dataset.diseases) >= 1
    /\ \E demographics \in resolveDemographics(dataset.diseases[1]) :
          call' = [fn |-> "resolveDemographics",
                   disease |-> dataset.diseases[1],
                   demographics |-> demographics]
    /\ UNCHANGED <<dataset, sm2_vars, sym_vars, app_vars>>

DemographicsInit ==
    /\ dataset \in DemographicDatasets
    /\ call = Null
    /\ sm2_state = Null
    /\ sm2_call = Null
    /\ sym_items = <<>>
    /\ sym_call = Null
    /\ loader = Null
    /\ storage = Null
    /\ session = Null

DemographicsNext == ResolveDemographics

\* The split of the sampled symptoms (lines 172-188).  A symptom text is a
\* sequence of characters: "she" is the character of the tongue, "zhi", "tai",
\* "ti", "se", "bian", "xia" the characters that follow it in the markers of
\* line 178, "mai" the character of the pulse, "x" any other.
\* /^she|she zhi|she tai|she ti|she se|she bian|she xia/: the anchor binds the
\* first alternative only.
IsTongueText(text) ==
    \/ (text # <<>> /\ text[1] = "she")
    \/ \E second \in {"zhi", "tai", "ti", "se", "bian", "xia"} : HasPair(text, "she", second)

\* /^mai/
IsPulseText(text) == text # <<>> /\ text[1] = "mai"

splitSymptomItems(items) ==
    LET IsTongue(item) == IsTongueText(item.text)
        IsPulse(item) == ~IsTongueText(item.text) /\ IsPulseText(item.text)
        IsMain(item) == ~IsTongueText(item.text) /\ ~IsPulseText(item.text)
    IN  [main_symptoms |-> SelectSeq(items, IsMain),
         tongue_items |-> SelectSeq(items, IsTongue),
         pulse_items |-> SelectSeq(items, IsPulse)]

\* The symptom lists that are sampled and split.
MaxSplitItems == 2

SplitTexts ==
    { <<"x">>, <<"she", "x">>, <<"she", "tai">>, <<"x", "she">>, <<"x", "she", "tai">>,
      <<"mai", "x">>, <<"x", "mai">>, <<"mai", "she", "tai">> }

SplitItemLists == SeqsUpTo([text : SplitTexts, is_key : BOOLEAN], MaxSplitItems)

\* Lines 367-369 of generateCaseQuestion and line 292 of buildCaseText: the
\* symptoms are sampled with the default ratio and the sampled items are split.
SplitSampled ==
    /\ sym_call = Null
    /\ \E drawn_ratio \in DefaultRatios,
          draws \in SwapDraws(Len(SelectSeq(sym_items, IsOptional))) :
          LET sampled == sampleSymptoms(sym_items, <<>>, drawn_ratio, draws)
          IN  sym_call' = [items |-> sym_items,
                           ratio |-> <<>>,
                           result |-> sampled,
                           split |-> splitSymptomItems(sampled.sampled_items)]
    /\ UNCHANGED <<sym_items, sm2_vars, engine_vars, app_vars>>

SplitInit ==
    /\ sym_items \in SplitItemLists
    /\ sym_call = Null
    /\ sm2_state = Null
    /\ sm2_call = Null
    /\ dataset = NoDataset
    /\ call = Null
    /\ loader = Null
    /\ storage = Null
    /\ session = Null

SplitNext == SplitSampled

\* [...new Set(values)]: the values without repeats, in the order of their
\* first occurrence.
RECURSIVE Distinct(_)
Distinct(values) ==
    IF values = <<>> THEN <<>>
    ELSE LET front == Distinct(SubSeq(values, 1, Len(values) - 1))
             last == values[Len(values)]
         IN  IF last \in Range(front) THEN front ELSE Append(front, last)

\* Line 405: the disease ids the syndromes carry.
SyndromeDiseaseIds(syndromes) ==
    Distinct([i \in 1..Len(syndromes) |-> syndromes[i].disease_id])

\* Line 406: sort with the comparator Math.random() - 0.5.  The comparator is
\* inconsistent, so the order is whatever the engine's sort makes of it: any
\* permutation of the ids.
RandomOrders(items) ==
    {shuffle(items, draws) : draws \in SwapDraws(Len(items))}

\* Lines 410-416: one random syndrome per disease, in the shuffled order of the
\* diseases, until count syndromes are picked.
RECURSIVE PickPerDisease(_, _, _, _)
PickPerDisease(ds, shuffled_disease_ids, picked, count) ==
    IF shuffled_disease_ids = <<>> \/ Len(picked) >= count THEN {picked}
    ELSE LET OfDisease(item) == item.disease_id = Head(shuffled_disease_ids)
             candidates == SelectSeq(ds.syndromes, OfDisease)
         IN  IF Len(candidates) = 0
             THEN PickPerDisease(ds, Tail(shuffled_disease_ids), picked, count)
             ELSE UNION { PickPerDisease(ds, Tail(shuffled_disease_ids),
                                         Append(picked, candidates[k]), count) :
                            k \in 1..Len(candidates) }

\* Lines 419-421: random syndromes of the whole dataset until count is met.
RECURSIVE PadPicked(_, _, _)
PadPicked(ds, picked, count) ==
    IF Len(picked) >= count THEN {picked}
    ELSE UNION { PadPicked(ds, Append(picked, ds.syndromes[k]), count) :
                   k \in 1..Len(ds.syndromes) }

\* Mutant: no pass over the diseases, every syndrome is a uniform random pick.
generateRandomCasesPicked_AllRandom(ds, count) ==
    PadPicked(ds, <<>>, count)

\* Every list of syndromes generateRandomCases can pick (on a dataset that has
\* syndromes).
generateRandomCasesPicked(ds, count) ==
    UNION { UNION { PadPicked(ds, picked, count) :
                      picked \in PickPerDisease(ds, shuffled_disease_ids, <<>>, count) } :
              shuffled_disease_ids \in RandomOrders(SyndromeDiseaseIds(ds.syndromes)) }

\* The counts passed to generateRandomCases.
MaxCases == 4

CaseCounts == 0..MaxCases

generateRandomCases(count) ==
    /\ call = Null
    /\ \E picked \in generateRandomCasesPicked(dataset, count) :
          call' = CaseCall("generateRandomCases", count, MapCases(dataset, picked))
    /\ UNCHANGED <<dataset, sm2_vars, sym_vars, app_vars>>

CaseInit ==
    /\ dataset \in Datasets
    /\ call = Null
    /\ sm2_state = Null
    /\ sm2_call = Null
    /\ sym_items = <<>>
    /\ sym_call = Null
    /\ loader = Null
    /\ storage = Null
    /\ session = Null

\* The lookups by id, of the question engine and of the case generator, and
\* the batch calls of the case generator.
CaseNext ==
    \/ \E syndrome_id \in Range(SyndromeIds) \cup {MissingSyndromeId},
          question_type \in {<<QuestionTypes[t]>> : t \in 1..Len(QuestionTypes)} :
            generateQuestion(syndrome_id, question_type)
    \/ \E s \in 1..Len(SyndromeIds) : generateCaseQuestion(s)
    \/ \E syndrome_id \in Range(SyndromeIds) \cup {MissingSyndromeId} :
            generateCaseById(syndrome_id)
    \/ \E disease_id \in DiseaseIds : generateCasesByDisease(disease_id)
    \/ generateAllCases
    \/ \E count \in CaseCounts : generateRandomCases(count)

DistractorInit ==
    /\ dataset \in Datasets
    /\ call = Null
    /\ sm2_state = Null
    /\ sm2_call = Null
    /\ sym_items = <<>>
    /\ sym_call = Null
    /\ loader = Null
    /\ storage = Null
    /\ session = Null

DistractorNext ==
    \E syndrome_id \in Range(SyndromeIds) \cup {MissingSyndromeId},
       field \in DistractorFields, count \in PickCounts :
        GenerateDistractors(syndrome_id, field, count)

QuestionTypeArguments ==
    {<<>>} \cup {<<QuestionTypes[t]>> : t \in 1..Len(QuestionTypes)}

QuestionInit ==
    /\ dataset \in Datasets
    /\ call = Null
    /\ sm2_state = Null
    /\ sm2_call = Null
    /\ sym_items = <<>>
    /\ sym_call = Null
    /\ loader = Null
    /\ storage = Null
    /\ session = Null

QuestionNext ==
    \/ \E syndrome_id \in Range(SyndromeIds) \cup {MissingSyndromeId},
          question_type \in QuestionTypeArguments :
            generateQuestion(syndrome_id, question_type)
    \/ \E disease_id \in DiseaseIds, count \in Counts, type_filter \in TypeFilters :
            generateByDisease(disease_id, count, type_filter)
    \/ \E count \in Counts, type_filter \in TypeFilters :
            generateRandom(count, type_filter)

BatchInit ==
    /\ dataset \in SmallDatasets
    /\ call = Null
    /\ sm2_state = Null
    /\ sm2_call = Null
    /\ sym_items = <<>>
    /\ sym_call = Null
    /\ loader = Null
    /\ storage = Null
    /\ session = Null

BatchNext ==
    \/ \E disease_id \in DiseaseIds, count \in Counts, type_filter \in TypeFilters :
            generateByDisease(disease_id, count, type_filter)
    \/ \E count \in Counts, type_filter \in TypeFilters :
            generateRandom(count, type_filter)

-----------------------------------------------------------------------------
(* The specifications, one per component; the other components stay idle.  *)

SpecSm2 == Sm2Init /\ [][Sm2Next]_vars

SpecSampler == SamplerInit /\ [][SamplerNext]_vars

SpecDistractor == DistractorInit /\ [][DistractorNext]_vars

SpecQuestion == QuestionInit /\ [][QuestionNext]_vars

SpecBatch == BatchInit /\ [][BatchNext]_vars

SpecCase == CaseInit /\ [][CaseNext]_vars

SpecRandom == RandomInit /\ [][RandomNext]_vars

SpecDemographics == DemographicsInit /\ [][DemographicsNext]_vars

SpecSplit == SplitInit /\ [][SplitNext]_vars

-----------------------------------------------------------------------------
(* Properties of the scheduler.                                            *)

Called == sm2_call # Null

\* The state the last call started from (the default state when previous was null).
CallCurrent == CurrentState(sm2_call.previous, sm2_call.base_timestamp)

\* C4: for every previous state (null included) and every quality that is below
\* 3 after clamping to [0,5], getNextSm2State returns repetition 0 and interval 1.
C4_FailureReset ==
    (Called /\ Max(0, Min(5, sm2_call.quality)) < 3)
        => (sm2_call.result.repetition = 0 /\ sm2_call.result.interval = 1)

\* A failure (quality 0) after a run of successes that had grown the interval.
C4_Witness ==
    /\ Called
    /\ sm2_call.previous # Null
    /\ sm2_call.previous.repetition >= 3
    /\ sm2_call.previous.interval > 6
    /\ sm2_call.quality = 0
    /\ sm2_state.repetition = 0
    /\ sm2_state.interval = 1

\* The change of the easiness factor per clamped quality 0..5, in hundredths.
EasinessStep == <<-80, -54, -32, -14, 0, 10>>

\* C5: after any sequence of calls from the initial state the easiness factor is
\* never below 1.30; each call changes it by +10, 0, -14, -32, -54, -80
\* hundredths for quality 5..0, floored at 130.
C5_EasinessFloor ==
    Called =>
        /\ sm2_state.easiness_factor >= 130
        /\ sm2_state.easiness_factor
             = Max(130, CallCurrent.easiness_factor
                          + EasinessStep[Max(0, Min(5, sm2_call.quality)) + 1])

\* Quality 3 again at an easiness factor the step would take below the floor.
C5_Witness ==
    /\ Called
    /\ sm2_call.previous # Null
    /\ sm2_call.quality = 3
    /\ sm2_call.previous.easiness_factor - 14 < 130
    /\ sm2_state.easiness_factor = 130

\* C9: from the default state (ef 2.5, interval 1, repetition 0) at time t,
\* quality 5 yields repetition 1, interval 1, ef 2.6 and next review
\* t + 86400000; quality 5 again at t' yields repetition 2, interval 6 and next
\* review t' + 6 * 86400000.
C9_KnownSequence ==
    (Called /\ sm2_call.quality = 5) =>
        /\ (/\ CallCurrent.easiness_factor = 250
             /\ CallCurrent.interval = 1
             /\ CallCurrent.repetition = 0)
            => (/\ sm2_call.result.repetition = 1
                /\ sm2_call.result.interval = 1
                /\ sm2_call.result.easiness_factor = 260
                /\ sm2_call.result.next_review_date
                     = sm2_call.base_timestamp + 86400000)
        /\ (/\ CallCurrent.easiness_factor = 260
             /\ CallCurrent.interval = 1
             /\ CallCurrent.repetition = 1)
            => (/\ sm2_call.result.repetition = 2
                /\ sm2_call.result.interval = 6
                /\ sm2_call.result.next_review_date
                     = sm2_call.base_timestamp + 518400000)

\* The second quality-5 review, taken at a time t' = 1000 after the first.
C9_Witness ==
    /\ Called
    /\ sm2_call.previous # Null
    /\ sm2_call.previous.easiness_factor = 260
    /\ sm2_call.previous.repetition = 1
    /\ sm2_call.previous.next_review_date = 86400000
    /\ sm2_call.quality = 5
    /\ sm2_call.base_timestamp = 1000
    /\ sm2_state.repetition = 2
    /\ sm2_state.next_review_date = 518401000

\* r is x / 100 rounded to the nearest integer, halves up.
IsRounded(r, x) == 100 * r - 50 <= x /\ x < 100 * r + 50

\* C10: on a success (clamped quality >= 3) repetition increments; the interval
\* is 1 when the new repetition is 1, 6 when it is 2, and otherwise
\* max(1, round(interval * ef)) of the INPUT state's interval and ef.
C10_SuccessInterval ==
    (Called /\ Max(0, Min(5, sm2_call.quality)) >= 3) =>
        LET cur == CallCurrent
            res == sm2_call.result
        IN  /\ res.repetition = cur.repetition + 1
            /\ res.repetition = 1 => res.interval = 1
            /\ res.repetition = 2 => res.interval = 6
            /\ res.repetition >= 3 =>
                  /\ res.interval >= 1
                  /\ \/ IsRounded(res.interval, cur.interval * cur.easiness_factor)
                     \/ (res.interval = 1 /\ cur.interval * cur.easiness_factor < 50)

\* A third or later success where the easiness factor computed in the same call
\* would have given another interval.
C10_Witness ==
    /\ Called
    /\ sm2_call.quality >= 3
    /\ sm2_call.result.repetition >= 3
    /\ ~IsRounded(sm2_call.result.interval,
                  sm2_call.previous.interval * sm2_call.result.easiness_factor)

\* C24: in every state reached from the initial state by getNextSm2State calls,
\* interval is an integer >= 1 and repetition an integer >= 0; repetition in
\* {0,1} implies interval = 1, repetition = 2 implies interval = 6, and
\* repetition >= 3 implies interval >= 8 and an interval strictly larger than
\* it was before the last (successful) review.
C24_IntervalByRepetition ==
    Called =>
        /\ sm2_state.interval \in Nat /\ sm2_state.interval >= 1
        /\ sm2_state.repetition \in Nat
        /\ sm2_state.repetition \in {0, 1} => sm2_state.interval = 1
        /\ sm2_state.repetition = 2 => sm2_state.interval = 6
        /\ sm2_state.repetition >= 3 =>
              /\ sm2_state.interval >= 8
              /\ sm2_state.interval > CallCurrent.interval

\* The third success in a row at the lowest easiness factor: 6 days become 8.
C24_Witness ==
    /\ Called
    /\ sm2_call.previous # Null
    /\ sm2_call.previous.repetition = 2
    /\ sm2_call.previous.easiness_factor = 130
    /\ sm2_state.repetition = 3
    /\ sm2_state.interval = 8

Answered == Called /\ sm2_call.answer # Null

\* C11: getReviewQuality returns 2 for every incorrect answer whatever the
\* duration; for a correct answer 5 when duration_ms <= 20000, 4 when
\* 20000 < duration_ms <= 60000 and 3 when duration_ms > 60000; never a value
\* outside {2,3,4,5}.  So an incorrect answer takes the failure branch of
\* getNextSm2State (repetition 0, interval 1) and a correct answer the success
\* branch (repetition incremented).
C11_ReviewQuality ==
    Answered =>
        LET is_correct == sm2_call.answer.is_correct
            duration_ms == sm2_call.answer.duration_ms
            quality == sm2_call.quality
        IN  /\ quality \in {2, 3, 4, 5}
            /\ ~is_correct => quality = 2
            /\ (is_correct /\ duration_ms <= 20000) => quality = 5
            /\ (is_correct /\ 20000 < duration_ms /\ duration_ms <= 60000) => quality = 4
            /\ (is_correct /\ duration_ms > 60000) => quality = 3
            /\ ~is_correct => (/\ sm2_call.result.repetition = 0
                               /\ sm2_call.result.interval = 1)
            /\ is_correct => sm2_call.result.repetition = CallCurrent.repetition + 1

\* A correct answer given in exactly 60 s after two successes (quality 4, the
\* third success), and before it a state that an incorrect answer would reset.
C11_Witness ==
    /\ Answered
    /\ sm2_call.answer.is_correct
    /\ sm2_call.answer.duration_ms = 60000
    /\ sm2_call.quality = 4
    /\ sm2_call.previous # Null
    /\ sm2_call.previous.repetition = 2
    /\ sm2_state.repetition = 3

-----------------------------------------------------------------------------
(* Properties of the symptom sampler.                                      *)

Sampled == sym_call # Null

\* a is a subsequence of b: a's elements occur in b in the same relative order.
RECURSIVE IsSubsequence(_, _)
IsSubsequence(a, b) ==
    IF a = <<>> THEN TRUE
    ELSE IF b = <<>> THEN FALSE
    ELSE IF Head(a) = Head(b) THEN IsSubsequence(Tail(a), Tail(b))
    ELSE IsSubsequence(a, Tail(b))

\* The number of positions of q that hold x.
Occurrences(q, x) == Cardinality({i \in 1..Len(q) : q[i] = x})

\* C1: for every item list and every ratio, given or drawn from [0.6, 0.9],
\* every item of items with is_key = true appears in sampled_items, as often as
\* it occurs in items.
C1_KeyItemsKept ==
    Sampled =>
        \A i \in 1..Len(sym_call.items) :
            sym_call.items[i].is_key =>
                Occurrences(sym_call.result.sampled_items, sym_call.items[i])
                    >= Occurrences(sym_call.items, sym_call.items[i])

\* A call with two key items and an optional item that the ratio left out.
C1_Witness ==
    /\ Sampled
    /\ Len(SelectSeq(sym_call.items, IsKey)) >= 2
    /\ Len(sym_call.result.sampled_items) < Len(sym_call.items)
    /\ Len(SelectSeq(sym_call.result.sampled_items, IsKey)) >= 2

\* C7: sampled_items is a subsequence of the input items, in their original
\* order, whatever the order in which the optional items were drawn.
C7_OrderPreserved ==
    Sampled => IsSubsequence(sym_call.result.sampled_items, sym_call.items)

\* Two optional items drawn in the reverse of their order in items, ahead of a
\* key item that comes last in items.
C7_Witness ==
    /\ Sampled
    /\ Len(sym_call.items) = 3
    /\ ~sym_call.items[1].is_key /\ ~sym_call.items[2].is_key /\ sym_call.items[3].is_key
    /\ sym_call.items[1].text # sym_call.items[2].text
    /\ sym_call.result.picked_optional = <<sym_call.items[2], sym_call.items[1]>>
    /\ sym_call.result.sampled_items = sym_call.items

\* C15: for every item list, lists in which several items share a text
\* included, and every ratio in [0,1], the number of non-key items in
\* sampled_items equals clamp(max(key_count, ceil(n * ratio)) - key_count, 0,
\* number of optional items): no optional item that was not drawn is included.
C15_OnlyDrawnOptional ==
    (Sampled /\ sym_call.result.target_ratio \in 0..RatioDen) =>
        LET n == Len(sym_call.items)
            key_count == Len(SelectSeq(sym_call.items, IsKey))
            optional_total == Len(SelectSeq(sym_call.items, IsOptional))
            wanted == Max(key_count, CeilDiv(n * sym_call.result.target_ratio, RatioDen))
                          - key_count
            optional_count == Max(0, Min(optional_total, wanted))
        IN  Len(SelectSeq(sym_call.result.sampled_items, IsOptional)) = optional_count

-----------------------------------------------------------------------------
(* Properties of the distractor generator.                                 *)

DistractorsCalled == call # Null /\ call.fn = "generateDistractors"

\* The target syndrome of the last generateDistractors call (it must exist).
CallTarget == dataset.syndromes[FindSyndrome(dataset.syndromes, call.syndrome_id)]

TargetExists == FindSyndrome(dataset.syndromes, call.syndrome_id) # 0

\* The other syndromes of the target's disease.
Siblings ==
    {i \in 1..Len(dataset.syndromes) :
        /\ dataset.syndromes[i].disease_id = CallTarget.disease_id
        /\ dataset.syndromes[i].syndrome_id # CallTarget.syndrome_id}

\* The value of the probed field of the i-th syndrome, as stored.
StoredValue(i) ==
    LET syn == dataset.syndromes[i]
    IN  CASE call.field = "syndrome_name" -> syn.syndrome_name
          [] call.field = "treatment_method" -> syn.treatment_method
          [] call.field = "prescription" -> syn.prescription.primary
          [] call.field = "pathogenesis" -> syn.pathogenesis

\* The values a set of syndromes can contribute: trimmed, not empty, not the
\* trimmed correct answer.
EligibleValues(indexes) ==
    {Trim(StoredValue(i)) : i \in indexes} \ {<<>>, Trim(call.correct_answer)}

\* C3: for every call of generateDistractors the returned list holds no value
\* equal to the trimmed correct answer and no two equal values.
C3_DistractorExclusivity ==
    DistractorsCalled =>
        /\ \A i \in 1..Len(call.result) : call.result[i] # Trim(call.correct_answer)
        /\ \A i, j \in 1..Len(call.result) : i # j => call.result[i] # call.result[j]

\* A call whose correct answer carries white space, on a dataset where another
\* syndrome stores the same answer and two further syndromes share one value
\* that is returned.
C3_Witness ==
    /\ DistractorsCalled
    /\ TargetExists
    /\ call.correct_answer # Trim(call.correct_answer)
    /\ Len(call.result) >= 2
    /\ \E i \in 1..Len(dataset.syndromes) :
          /\ dataset.syndromes[i].syndrome_id # call.syndrome_id
          /\ Trim(StoredValue(i)) = Trim(call.correct_answer)
    /\ \E i, j \in 1..Len(dataset.syndromes) :
          /\ i # j
          /\ Trim(StoredValue(i)) = Trim(StoredValue(j))
          /\ Trim(StoredValue(i)) \in Range(call.result)

\* C8 as stated: with at least 4 same-disease siblings whose stored values of
\* the probed field are pairwise distinct, a call with count = 4 returns exactly
\* 4 values, all of them values of those siblings.
C8_AsStated ==
    (/\ DistractorsCalled
     /\ TargetExists
     /\ call.count = 4
     /\ Cardinality(Siblings) >= 4
     /\ \A i, j \in Siblings : i # j => StoredValue(i) # StoredValue(j))
        => /\ Len(call.result) = 4
           /\ \A k \in 1..Len(call.result) :
                 call.result[k] \in {Trim(StoredValue(i)) : i \in Siblings}

\* C8, amended: when the same-disease siblings carry at least 4 distinct
\* eligible values (trimmed, not empty, different from the trimmed correct
\* answer), a call with count = 4 returns exactly 4 values, all of them among
\* those sibling values.
C8_TierOneSuffices ==
    (/\ DistractorsCalled
     /\ TargetExists
     /\ call.count = 4
     /\ Cardinality(EligibleValues(Siblings)) >= 4)
        => /\ Len(call.result) = 4
           /\ Range(call.result) \subseteq EligibleValues(Siblings)

\* A count-4 call whose 4 sibling values fill the result while a related
\* disease holds a further eligible value.
C8_Witness ==
    /\ DistractorsCalled
    /\ TargetExists
    /\ call.count = 4
    /\ Cardinality(EligibleValues(Siblings)) >= 4
    /\ Len(call.result) = 4
    /\ \E i \in 1..Len(dataset.syndromes) :
          /\ dataset.syndromes[i].disease_id = "D2"
          /\ CallTarget.disease_id = "D1"
          /\ dataset.diseases[1].related_diseases = <<"D2">>
          /\ EligibleValues({i}) # {}
          /\ EligibleValues({i}) \cap EligibleValues(Siblings) = {}

\* C14: when the target syndrome exists, generateDistractors returns exactly
\* min(count, G) values, G being the number of distinct non-empty trimmed values
\* of the probed field over the whole syndrome pool that differ from the
\* trimmed correct answer; fewer than count only when G < count.
C14_DistractorCount ==
    (DistractorsCalled /\ TargetExists) =>
        LET G == Cardinality(EligibleValues(1..Len(dataset.syndromes)))
        IN  /\ Len(call.result) = Min(call.count, G)
            /\ Len(call.result) < call.count => G < call.count

\* A call that comes back short: the siblings and the related diseases hold
\* fewer eligible values than the whole pool, and the pool fewer than count.
C14_Witness ==
    /\ DistractorsCalled
    /\ TargetExists
    /\ call.count = 4
    /\ Len(call.result) = 3
    /\ Cardinality(EligibleValues(Siblings)) = 1
    /\ Cardinality(EligibleValues(1..Len(dataset.syndromes))) = 3

\* C26: tier priority is kept in the result of generateDistractors: when the
\* same-disease siblings yield k < count eligible candidates, all k of them are
\* in the returned list, and the candidates of the lower tiers fill only the
\* remaining count - k places.
C26_TierPriority ==
    (/\ DistractorsCalled
     /\ TargetExists
     /\ Cardinality(EligibleValues(Siblings)) < call.count) =>
        LET sibling_values == EligibleValues(Siblings)
        IN  /\ sibling_values \subseteq Range(call.result)
            /\ Cardinality(Range(call.result) \ sibling_values)
                  <= call.count - Cardinality(sibling_values)

-----------------------------------------------------------------------------
(* Properties of the question engine.                                      *)

QuestionsCalled ==
    call # Null /\ call.fn \in {"generateQuestion", "generateByDisease", "generateRandom"}

\* The syndrome a question was generated from.
SourceOf(question) ==
    dataset.syndromes[FindSyndrome(dataset.syndromes, question.syndrome_id)]

\* The archetype table: the field that holds the correct answer of each type.
ExpectedAnswer(syndrome, question_type) ==
    CASE question_type \in {"Q1", "Q5"} -> syndrome.syndrome_name
      [] question_type = "Q2" -> syndrome.treatment_method
      [] question_type \in {"Q3", "Q6"} -> syndrome.prescription.primary
      [] question_type = "Q4" -> syndrome.pathogenesis

\* C2: in every question produced by generateQuestion, generateByDisease or
\* generateRandom, correct_index is a valid index into options and the option
\* there carries the archetype's correct-answer field of the source syndrome,
\* whatever the shuffle and however many distractors came back.
C2_OptionCorrectness ==
    QuestionsCalled =>
        \A k \in 1..Len(call.questions) :
            LET question == call.questions[k]
            IN  /\ question.correct_index >= 0
                /\ question.correct_index < Len(question.options)
                /\ question.options[question.correct_index + 1].text
                     = ExpectedAnswer(SourceOf(question), question.question_type)

\* A question whose type was picked at random (Q6), with five options, the
\* shuffle having moved the correct answer to the last place.
C2_Witness ==
    /\ QuestionsCalled
    /\ call.fn = "generateQuestion"
    /\ call.question_type = <<>>
    /\ Len(call.questions) = 1
    /\ call.questions[1].question_type = "Q6"
    /\ Len(call.questions[1].options) = 5
    /\ call.questions[1].correct_index = 4

\* The syndrome ids of a dataset.
ListedSyndromeIdsOf(ds) == {ds.syndromes[i].syndrome_id : i \in 1..Len(ds.syndromes)}

\* The syndromes of the disease of the last generateByDisease call.
DiseaseSyndromeIds ==
    {dataset.syndromes[i].syndrome_id :
        i \in {j \in 1..Len(dataset.syndromes) :
                  dataset.syndromes[j].disease_id = call.disease_id}}

\* C6: for a disease with n >= 1 syndromes and any count >= n, the questions
\* generateByDisease returns include at least one for every syndrome of the
\* disease.
C6_Coverage ==
    (/\ call # Null
     /\ call.fn = "generateByDisease"
     /\ Cardinality(DiseaseSyndromeIds) >= 1
     /\ call.count >= Cardinality(DiseaseSyndromeIds))
        => \A id \in DiseaseSyndromeIds :
              \E k \in 1..Len(call.questions) : call.questions[k].syndrome_id = id

\* A disease of two syndromes asked for exactly two questions.
C6_Witness ==
    /\ call # Null
    /\ call.fn = "generateByDisease"
    /\ Cardinality(DiseaseSyndromeIds) = 2
    /\ call.count = 2
    /\ Len(call.questions) = 2
    /\ call.questions[1].syndrome_id # call.questions[2].syndrome_id

\* C16: generateByDisease returns an empty array when the disease has no
\* syndromes in the dataset, and otherwise exactly count questions for every
\* count >= 0, all of them for syndromes of that disease.
C16_ExactCount ==
    (call # Null /\ call.fn = "generateByDisease") =>
        IF DiseaseSyndromeIds = {}
        THEN call.questions = <<>>
        ELSE /\ Len(call.questions) = call.count
             /\ \A k \in 1..Len(call.questions) :
                   /\ call.questions[k].syndrome_id \in DiseaseSyndromeIds
                   /\ call.questions[k].disease_id = call.disease_id

C19_TypeFilter ==
    (call # Null /\ call.fn \in {"generateByDisease", "generateRandom"}) =>
        \A k \in 1..Len(call.questions) :
            IF call.type_filter # <<>>
            THEN call.questions[k].question_type \in Range(call.type_filter)
            ELSE call.questions[k].question_type \in {"Q1", "Q2", "Q3", "Q4", "Q5", "Q6"}

\* A filter of two types on a disease of one syndrome asked for two questions:
\* one question from the coverage pass and one from the padding, of the two
\* types of the filter.
C19_Witness ==
    /\ call # Null
    /\ call.fn = "generateByDisease"
    /\ call.type_filter = <<"Q4", "Q5">>
    /\ Cardinality(DiseaseSyndromeIds) = 1
    /\ call.count = 2
    /\ Len(call.questions) = 2
    /\ call.questions[1].question_type = "Q5"
    /\ call.questions[2].question_type = "Q4"

\* The number of values generateDistractors has to offer for a question: the
\* distinct non-empty trimmed values of the archetype's field over the dataset
\* that differ from the trimmed correct answer.
AvailableDistractors(question) ==
    LET correct == ExpectedAnswer(SourceOf(question), question.question_type)
    IN  Cardinality({Trim(ExpectedAnswer(dataset.syndromes[i], question.question_type)) :
                        i \in 1..Len(dataset.syndromes)} \ {<<>>, Trim(correct)})

\* C20: every generated question has between 1 and 5 options, exactly one more
\* than the distractors generateDistractors returned (min(4, available)); the
\* option keys are the consecutive letters A, B, ... in list order, and the
\* correct answer is among the options (truncation to 5 never removes it).
C20_OptionList ==
    QuestionsCalled =>
        \A k \in 1..Len(call.questions) :
            LET question == call.questions[k]
                n == Len(question.options)
            IN  /\ n >= 1 /\ n <= 5
                /\ n = 1 + Min(4, AvailableDistractors(question))
                /\ \A i \in 1..n : question.options[i].key = <<"A", "B", "C", "D", "E">>[i]
                /\ \E i \in 1..n :
                      question.options[i].text
                        = ExpectedAnswer(SourceOf(question), question.question_type)

\* A question with five options, the correct answer under the last key E, and
\* more than four values available as distractors.
C20_Witness ==
    /\ QuestionsCalled
    /\ call.fn = "generateQuestion"
    /\ Len(call.questions) = 1
    /\ Len(call.questions[1].options) = 5
    /\ AvailableDistractors(call.questions[1]) = 5
    /\ call.questions[1].options[5].key = "E"
    /\ call.questions[1].options[5].text
          = ExpectedAnswer(SourceOf(call.questions[1]), call.questions[1].question_type)

\* C25: in every generated question the option texts are pairwise distinct, so
\* the correct answer text appears in exactly one option, the one at
\* correct_index, also when the correct-answer field carries leading or
\* trailing white space.
C25_DistinctOptions ==
    QuestionsCalled =>
        \A k \in 1..Len(call.questions) :
            LET question == call.questions[k]
                correct == ExpectedAnswer(SourceOf(question), question.question_type)
            IN  /\ \A i, j \in 1..Len(question.options) :
                      i # j => question.options[i].text # question.options[j].text
                /\ \A i \in 1..Len(question.options) :
                      question.options[i].text = correct <=> i = question.correct_index + 1

\* A question whose correct answer carries white space, while another syndrome
\* stores the same answer without it and further values repeat in the pool.
C25_Witness ==
    /\ QuestionsCalled
    /\ Len(call.questions) = 1
    /\ call.questions[1].question_type = "Q4"
    /\ LET correct == ExpectedAnswer(SourceOf(call.questions[1]), "Q4")
       IN  /\ correct # Trim(correct)
           /\ \E i \in 1..Len(dataset.syndromes) :
                 /\ dataset.syndromes[i].syndrome_id # call.questions[1].syndrome_id
                 /\ dataset.syndromes[i].pathogenesis = Trim(correct)
    /\ Len(call.questions[1].options) >= 2

-----------------------------------------------------------------------------
(* Properties of the lookups and of the case generator.                    *)

CasesCalled ==
    /\ call # Null
    /\ call.fn \in {"generateCaseQuestion", "generateCaseById", "generateCasesByDisease",
                    "generateAllCases", "generateRandomCases"}

\* The disease ids that dataset.diseases resolves.
ListedDiseaseIds == {dataset.diseases[i].disease_id : i \in 1..Len(dataset.diseases)}

\* The syndrome ids that dataset.syndromes resolves.
ListedSyndromeIds == {dataset.syndromes[i].syndrome_id : i \in 1..Len(dataset.syndromes)}

\* The syndrome of the dataset with this id (it must be listed).
SyndromeWithId(id) ==
    CHOOSE syn \in Range(dataset.syndromes) : syn.syndrome_id = id

\* C12: generateQuestion and generateCaseById fail with a not-found error and
\* return no item whenever syndrome_id does not resolve in dataset.syndromes;
\* generateCaseQuestion fails with a not-found error whenever the syndrome's
\* disease_id does not resolve in dataset.diseases.
C12_NotFound ==
    call # Null =>
        /\ (/\ call.fn = "generateQuestion"
            /\ call.syndrome_id \notin ListedSyndromeIds)
              => (call.threw /\ call.questions = <<>>)
        /\ (/\ call.fn = "generateCaseById"
            /\ call.argument \notin ListedSyndromeIds)
              => (call.threw /\ call.cases = <<>>)
        /\ (/\ call.fn \in {"generateCaseQuestion", "generateCaseById"}
            /\ call.argument \in ListedSyndromeIds
            /\ SyndromeWithId(call.argument).disease_id \notin ListedDiseaseIds)
              => (call.threw /\ call.cases = <<>>)

\* generateCaseQuestion called on a syndrome whose disease (D9) is not listed.
C12_Witness ==
    /\ CasesCalled
    /\ call.fn = "generateCaseQuestion"
    /\ call.argument \in ListedSyndromeIds
    /\ SyndromeWithId(call.argument).disease_id = "D9"
    /\ "D9" \notin ListedDiseaseIds
    /\ call.threw

\* C13: generateQuestion fails with a not-found error when the resolved
\* syndrome's disease_id is absent from dataset.diseases; it produces no
\* question with a defaulted disease name.
C13_MissingDiseaseFails ==
    (/\ call # Null
     /\ call.fn = "generateQuestion"
     /\ call.syndrome_id \in ListedSyndromeIds
     /\ SyndromeWithId(call.syndrome_id).disease_id \notin ListedDiseaseIds)
        => (call.threw /\ call.questions = <<>>)

\* The diseases the syndromes of the dataset span.
SpannedDiseaseIds == {dataset.syndromes[i].disease_id : i \in 1..Len(dataset.syndromes)}

\* A valid dataset: every syndrome's disease is listed in dataset.diseases.
ValidDataset == SpannedDiseaseIds \subseteq ListedDiseaseIds

\* C18: on a valid non-empty dataset whose syndromes span K diseases,
\* generateRandomCases returns exactly count cases; when count <= K they belong
\* to pairwise distinct diseases, and when count > K each of the K diseases has
\* a case before any disease is repeated (the first K cases are of pairwise
\* distinct diseases).
C18_RandomCases ==
    (/\ call # Null
     /\ call.fn = "generateRandomCases"
     /\ Len(dataset.syndromes) >= 1
     /\ ValidDataset) =>
        LET K == Cardinality(SpannedDiseaseIds)
            first == Min(call.argument, K)
        IN  /\ ~call.threw
            /\ Len(call.cases) = call.argument
            /\ \A i, j \in 1..first :
                  i # j => call.cases[i].disease_id # call.cases[j].disease_id
            /\ call.argument > K =>
                  \A id \in SpannedDiseaseIds :
                      \E k \in 1..K : call.cases[k].disease_id = id

\* Four cases on a dataset of two diseases: the second disease first, then the
\* first, then two more cases of one disease.
C18_Witness ==
    /\ call # Null
    /\ call.fn = "generateRandomCases"
    /\ ValidDataset
    /\ Cardinality(SpannedDiseaseIds) = 2
    /\ call.argument = 4
    /\ Len(call.cases) = 4
    /\ call.cases[1].disease_id = "D2"
    /\ call.cases[2].disease_id = "D1"
    /\ call.cases[3].disease_id = call.cases[4].disease_id

-----------------------------------------------------------------------------
(* Properties of utils/random.ts.                                          *)

\* C21: pickOne called with an empty list fails with an out-of-range error; it
\* does not return a value.
C21_EmptyListFails ==
    (call # Null /\ call.fn = "pickOne" /\ call.items = <<>>) => call.threw

-----------------------------------------------------------------------------
(* Properties of the patient and of the split of the symptoms.             *)

DemographicsCalled == call # Null /\ call.fn = "resolveDemographics"

\* The age range configured for a female-only disease, [20, 50] when none.
ConfiguredFemaleRange(disease_id) ==
    CASE disease_id = "D036" -> 25..50
      [] disease_id = "D042" -> 18..50
      [] disease_id = "D043" -> 16..42
      [] disease_id = "D044" -> 14..45
      [] disease_id = "D045" -> 45..55
      [] disease_id = "D046" -> 20..50
      [] disease_id \in {"D047", "D048"} -> 23..38
      [] disease_id = "D049" -> 24..38
      [] disease_id = "D050" -> 25..50
      [] OTHER -> 20..50

\* C22: a non-pediatric disease that resolves as female-only (its id is in the
\* fixed female-only set or its name matches a gynecological / obstetric
\* marker) gets gender female and an age of that disease's range, [20, 50]
\* when none is configured; the male-only disease D040 gets gender male and an
\* age in [55, 78].
C22_Demographics ==
    DemographicsCalled =>
        LET id == call.disease.disease_id
            patient == call.demographics
        IN  /\ (/\ id \notin PEDIATRIC_DISEASE_IDS
                /\ id # "D040"
                /\ \/ id \in FEMALE_ONLY_DISEASE_IDS
                   \/ isFemaleOnlyByName(call.disease.disease_name))
                  => (/\ patient.gender = "F"
                      /\ patient.age_unit = "years"
                      /\ patient.age \in ConfiguredFemaleRange(id))
            /\ id = "D040"
                  => (/\ patient.gender = "M"
                      /\ patient.age_unit = "years"
                      /\ patient.age \in 55..78)

\* C23: splitSymptomItems partitions the sampled items into three disjoint
\* groups covering all of them; an item is in the tongue group only if its text
\* starts with a tongue marker, in the pulse group only if its text starts with
\* the pulse marker, and in the main-symptom group otherwise.
C23_SplitByPrefix ==
    (sym_call # Null /\ "split" \in DOMAIN sym_call) =>
        LET sampled == sym_call.result.sampled_items
            split == sym_call.split
            StartsWithTongue(item) == item.text # <<>> /\ item.text[1] = "she"
            StartsWithPulse(item) == item.text # <<>> /\ item.text[1] = "mai"
            Other(item) == ~StartsWithTongue(item) /\ ~StartsWithPulse(item)
        IN  /\ split.tongue_items = SelectSeq(sampled, StartsWithTongue)
            /\ split.pulse_items = SelectSeq(sampled, StartsWithPulse)
            /\ split.main_symptoms = SelectSeq(sampled, Other)

-----------------------------------------------------------------------------
(* The dataset loader (data/dataset.ts) and its callers (App.tsx).         *)
(* loader.dataset_cache maps a source to the index of its cached promise   *)
(* in loader.loads (0: no entry); loader.loads are the promises returned   *)
(* by loadSource; loader.calls are the calls of loadDataset, each with the *)
(* promise it awaits.                                                      *)

DatasetSources == {"runtime", "chat_preview"}

ACTIVE_DATASET_SOURCE == "chat_preview"

MaxCalls == 4

\* new Map<DatasetSource, Promise<DatasetBundle>>()
dataset_cache == [source \in DatasetSources |-> 0]

\* loadSource(source): a new promise over the two dynamic imports.
loadSource(source) == [source |-> source, state |-> "pending"]

\* loadDataset(source): the cached promise when the cache has one for the
\* source, whatever its state; otherwise the promise of loadSource, cached.
\* `by` names the caller: initAppData, retryDatasetLoad or any other.
loadDataset(source, by) ==
    LET cached == loader.dataset_cache[source]
    IN  /\ Len(loader.calls) < MaxCalls
        /\ IF cached # 0
           THEN loader' = [loader EXCEPT
                    !.calls = Append(@, [source |-> source, by |-> by,
                                         load |-> cached,
                                         state |-> "awaiting"])]
           ELSE loader' = [loader EXCEPT
                    !.loads = Append(@, loadSource(source)),
                    !.dataset_cache[source] = Len(loader.loads) + 1,
                    !.calls = Append(@, [source |-> source, by |-> by,
                                         load |-> Len(loader.loads) + 1,
                                         state |-> "awaiting"])]
        /\ UNCHANGED <<sm2_vars, sym_vars, engine_vars, storage, session>>

\* initAppData: the first call of the application, for the active source.
initAppData ==
    /\ \A c \in DOMAIN loader.calls : loader.calls[c].by # "initAppData"
    /\ loadDataset(ACTIVE_DATASET_SOURCE, "initAppData")

\* retryDatasetLoad: offered once a load of the application has failed.
retryDatasetLoad ==
    /\ \E c \in DOMAIN loader.calls :
          /\ loader.calls[c].by # "other"
          /\ loader.calls[c].state = "rejected"
    /\ loadDataset(ACTIVE_DATASET_SOURCE, "retryDatasetLoad")

\* The dynamic imports of a pending load complete.
LoadSourceFulfils(l) ==
    /\ loader.loads[l].state = "pending"
    /\ loader' = [loader EXCEPT !.loads[l].state = "fulfilled"]
    /\ UNCHANGED <<sm2_vars, sym_vars, engine_vars, storage, session>>

\* A dynamic import of a pending load fails.
LoadSourceRejects(l) ==
    /\ loader.loads[l].state = "pending"
    /\ loader' = [loader EXCEPT !.loads[l].state = "rejected"]
    /\ UNCHANGED <<sm2_vars, sym_vars, engine_vars, storage, session>>

\* await loadDataset() continues once the awaited promise is settled.
AwaitLoadDataset(c) ==
    /\ loader.calls[c].state = "awaiting"
    /\ loader.loads[loader.calls[c].load].state # "pending"
    /\ loader' = [loader EXCEPT
            !.calls[c].state = loader.loads[loader.calls[c].load].state]
    /\ UNCHANGED <<sm2_vars, sym_vars, engine_vars, storage, session>>

LoaderInit ==
    /\ loader = [dataset_cache |-> dataset_cache, loads |-> <<>>,
                 calls |-> <<>>]
    /\ storage = Null
    /\ session = Null
    /\ sm2_state = Null
    /\ sm2_call = Null
    /\ sym_items = <<>>
    /\ sym_call = Null
    /\ dataset = NoDataset
    /\ call = Null

LoaderNext ==
    \/ \E source \in DatasetSources : loadDataset(source, "other")
    \/ initAppData
    \/ retryDatasetLoad
    \/ \E l \in DOMAIN loader.loads : LoadSourceFulfils(l)
    \/ \E l \in DOMAIN loader.loads : LoadSourceRejects(l)
    \/ \E c \in DOMAIN loader.calls : AwaitLoadDataset(c)

SpecLoader == LoaderInit /\ [][LoaderNext]_vars

\* A call of loadDataset is appended for the source.
CallsLoadDataset(source) ==
    /\ Len(loader'.calls) = Len(loader.calls) + 1
    /\ loader'.calls[Len(loader'.calls)].source = source

\* C27: after a loadDataset call for a source has failed, a later call for the
\* same source starts a fresh load (which can succeed); calls made while a load
\* is in flight share that single load.
C27_RetryStartsFreshLoad ==
    /\ [][\A source \in DatasetSources :
            (/\ \E c \in DOMAIN loader.calls :
                   /\ loader.calls[c].source = source
                   /\ loader.calls[c].state = "rejected"
             /\ CallsLoadDataset(source))
                => /\ Len(loader'.loads) = Len(loader.loads) + 1
                   /\ loader'.calls[Len(loader'.calls)].load
                          = Len(loader'.loads)]_vars
    /\ [](\A source \in DatasetSources :
            Cardinality({l \in DOMAIN loader.loads :
                            /\ loader.loads[l].source = source
                            /\ loader.loads[l].state = "pending"}) <= 1)

-----------------------------------------------------------------------------
(* The storage (storage/index.ts over the Dexie database of storage/db.ts). *)
(* storage.init_task is the index in storage.tasks of the promise held by  *)
(* init_task (0: null); a task is one run of                               *)
(* migrateFromLocalStorageIfNeeded with the state of its promise;          *)
(* storage.ops are the storage calls, each with the task its initStorage   *)
(* awaits and its position.  storage.commits counts the committed          *)
(* migration transactions.  Record ids are numbers, so that the first      *)
(* match of an index query is the one of the least id.                     *)

MaxOps == 3

MaxRecordId == 2

RecordIds == 1..MaxRecordId

QuestionIds == {"q1", "q2"}

AnswerRecords == [id : RecordIds]

\* A bookmark as handleToggleBookmark builds it.
NewBookmarks ==
    {[id |-> id, question_id |-> q, question_snapshot |-> [id |-> q]] :
        id \in RecordIds, q \in QuestionIds}

\* The bookmarks of localStorage, saved before question_id existed.
LegacyBookmarkLists ==
    {<<>>, <<[id |-> 1, question_snapshot |-> [id |-> "q1"]]>>}

LegacyRecordLists == {<<>>, <<[id |-> 1]>>}

\* { ...bookmark, question_id: bookmark.question_snapshot.id }
toBookmarkWithQuestionId(bookmark) ==
    [id |-> bookmark.id,
     question_id |-> bookmark.question_snapshot.id,
     question_snapshot |-> bookmark.question_snapshot]

\* table.put(record): the record replaces the one of the same primary key.
Put(table, record) == {r \in table : r.id # record.id} \cup {record}

\* table.bulkPut(records)
BulkPut(table, records) ==
    {r \in table : \A i \in DOMAIN records : records[i].id # r.id}
        \cup {records[i] : i \in DOMAIN records}

\* The database when the module is loaded: empty and not migrated, or
\* migrated by an earlier visit.
InitialDatabases ==
    [answer_records : {{}}, bookmarks : {{}}, migrated : BOOLEAN]

StorageUnchanged == UNCHANGED <<sm2_vars, sym_vars, engine_vars, loader, session>>

\* initStorage up to its await, in a storage call: when init_task is null a
\* migration starts (it runs up to the await of db.meta.get) and init_task
\* holds its promise; the call then awaits init_task.
initStorage(fn, argument) ==
    LET started == storage.init_task = 0
        task == IF started THEN Len(storage.tasks) + 1
                ELSE storage.init_task
    IN  [storage EXCEPT
            !.tasks = IF started THEN Append(@, "get") ELSE @,
            !.init_task = task,
            !.ops = Append(@, [fn |-> fn, argument |-> argument,
                               task |-> task, pc |-> "initStorage",
                               existing |-> Null])]

getAnswerRecords ==
    /\ Len(storage.ops) < MaxOps
    /\ storage' = initStorage("getAnswerRecords", Null)
    /\ StorageUnchanged

saveAnswerRecord(record) ==
    /\ Len(storage.ops) < MaxOps
    /\ storage' = initStorage("saveAnswerRecord", record)
    /\ StorageUnchanged

\* db.meta.get returns: the migration returns when the flag is '1', otherwise
\* it reads localStorage and opens the transaction.
MetaGetReturns(t) ==
    /\ storage.tasks[t] = "get"
    /\ storage' = [storage EXCEPT
           !.tasks[t] = IF storage.db.migrated THEN "fulfilled"
                        ELSE "transaction"]
    /\ StorageUnchanged

\* db.meta.get fails.
MetaGetFails(t) ==
    /\ storage.tasks[t] = "get"
    /\ storage' = [storage EXCEPT !.tasks[t] = "rejected"]
    /\ StorageUnchanged

\* The transaction commits the legacy records, the normalized legacy bookmarks
\* and the migrated flag together.
TransactionCommits(t) ==
    /\ storage.tasks[t] = "transaction"
    /\ LET legacy_records == storage.local_storage.records
           legacy_bookmarks == storage.local_storage.bookmarks
           normalized_bookmarks ==
               [i \in DOMAIN legacy_bookmarks |->
                    toBookmarkWithQuestionId(legacy_bookmarks[i])]
       IN  storage' = [storage EXCEPT
               !.db.answer_records = BulkPut(@, legacy_records),
               !.db.bookmarks = BulkPut(@, normalized_bookmarks),
               !.db.migrated = TRUE,
               !.commits = @ + 1,
               !.tasks[t] = "fulfilled"]
    /\ StorageUnchanged

\* The transaction aborts: nothing of it is written.
TransactionAborts(t) ==
    /\ storage.tasks[t] = "transaction"
    /\ storage' = [storage EXCEPT !.tasks[t] = "rejected"]
    /\ StorageUnchanged

\* The same handler, leaving init_task as it is.
CatchMigrationError_KeepsTask(t) ==
    /\ storage.tasks[t] = "rejected"
    /\ storage' = [storage EXCEPT !.tasks[t] = "thrown"]
    /\ StorageUnchanged

\* .catch((error) => { init_task = null; throw error }): init_task, the
\* promise the callers await, rejects after the handler has run.
CatchMigrationError(t) ==
    /\ storage.tasks[t] = "rejected"
    /\ storage' = [storage EXCEPT !.tasks[t] = "thrown", !.init_task = 0]
    /\ StorageUnchanged

\* await init_task continues: the call goes on to its database access.
InitStorageReturns(o) ==
    /\ storage.ops[o].pc = "initStorage"
    /\ storage.tasks[storage.ops[o].task] = "fulfilled"
    /\ storage' = [storage EXCEPT !.ops[o].pc = "access"]
    /\ StorageUnchanged

\* await init_task throws: the call ends with the error.
InitStorageThrows(o) ==
    /\ storage.ops[o].pc = "initStorage"
    /\ storage.tasks[storage.ops[o].task] = "thrown"
    /\ storage' = [storage EXCEPT !.ops[o].pc = "threw"]
    /\ StorageUnchanged

\* getAnswerRecords: db.answer_records ... toArray()
ReadAnswerRecords(o) ==
    /\ storage.ops[o].pc = "access"
    /\ storage.ops[o].fn = "getAnswerRecords"
    /\ storage' = [storage EXCEPT
           !.ops[o].pc = "done",
           !.ops[o].existing = [records |-> storage.db.answer_records]]
    /\ StorageUnchanged

\* saveAnswerRecord: db.answer_records.put(record)
PutAnswerRecord(o) ==
    /\ storage.ops[o].pc = "access"
    /\ storage.ops[o].fn = "saveAnswerRecord"
    /\ storage' = [storage EXCEPT
           !.ops[o].pc = "done",
           !.db.answer_records = Put(@, storage.ops[o].argument)]
    /\ StorageUnchanged

StorageInit ==
    /\ storage \in [init_task : {0}, tasks : {<<>>}, ops : {<<>>},
                    commits : {0}, db : InitialDatabases,
                    local_storage : [records : LegacyRecordLists,
                                     bookmarks : LegacyBookmarkLists]]
    /\ loader = Null
    /\ session = Null
    /\ sm2_state = Null
    /\ sm2_call = Null
    /\ sym_items = <<>>
    /\ sym_call = Null
    /\ dataset = NoDataset
    /\ call = Null

StorageNext ==
    \/ getAnswerRecords
    \/ \E record \in AnswerRecords : saveAnswerRecord(record)
    \/ \E t \in DOMAIN storage.tasks : MetaGetReturns(t)
    \/ \E t \in DOMAIN storage.tasks : MetaGetFails(t)
    \/ \E t \in DOMAIN storage.tasks : TransactionCommits(t)
    \/ \E t \in DOMAIN storage.tasks : TransactionAborts(t)
    \/ \E t \in DOMAIN storage.tasks : CatchMigrationError(t)
    \/ \E o \in DOMAIN storage.ops : InitStorageReturns(o)
    \/ \E o \in DOMAIN storage.ops : InitStorageThrows(o)
    \/ \E o \in DOMAIN storage.ops : ReadAnswerRecords(o)
    \/ \E o \in DOMAIN storage.ops : PutAnswerRecord(o)

SpecStorage == StorageInit /\ [][StorageNext]_vars

\* The migrations in flight.
RunningMigrations ==
    {t \in DOMAIN storage.tasks :
        storage.tasks[t] \in {"get", "transaction"}}

\* C28: under any interleaving of storage calls the migration runs at most
\* once at a time and its transaction is committed at most once; a call whose
\* initStorage awaited a failed migration ends with the error, and the call
\* after a failed migration starts the migration again; a call reaches its
\* database access only after its initStorage has succeeded, the database
\* migrated.
C28_MigrationOnce ==
    /\ [](/\ Cardinality(RunningMigrations) <= 1
          /\ storage.commits <= 1
          /\ \A o \in DOMAIN storage.ops :
                /\ storage.ops[o].pc \in {"access", "done"}
                      => /\ storage.tasks[storage.ops[o].task] = "fulfilled"
                         /\ storage.db.migrated
                /\ storage.ops[o].pc = "threw"
                      => storage.tasks[storage.ops[o].task] = "thrown")
    /\ [][(/\ Len(storage'.ops) = Len(storage.ops) + 1
           /\ storage.tasks # <<>>
           /\ \A t \in DOMAIN storage.tasks : storage.tasks[t] = "thrown")
              => /\ Len(storage'.tasks) = Len(storage.tasks) + 1
                 /\ storage'.ops[Len(storage'.ops)].task
                        = Len(storage'.tasks)]_vars

\* Two calls awaited a migration that failed and both ended with the error; a
\* later call started the migration again, which committed, and the call
\* made its access.
C28_Witness ==
    /\ Cardinality({o \in DOMAIN storage.ops :
                        storage.ops[o].pc = "threw"}) = 2
    /\ \E o \in DOMAIN storage.ops : storage.ops[o].pc = "done"
    /\ storage.commits = 1
    /\ Len(storage.tasks) = 2

-----------------------------------------------------------------------------
(* The bookmarks (toggleBookmark of storage/index.ts, called by            *)
(* handleToggleBookmark of App.tsx).                                       *)

\* handleToggleBookmark: toggleBookmark is called with a bookmark of the
\* current question under a new record id; toggleBookmark awaits initStorage.
handleToggleBookmark(bookmark) ==
    /\ Len(storage.ops) < MaxOps
    /\ storage' = initStorage("toggleBookmark", bookmark)
    /\ StorageUnchanged

\* The bookmarks of a question, as the index on question_id lists them.
BookmarksOf(question_id) ==
    {b \in storage.db.bookmarks : b.question_id = question_id}

\* db.bookmarks.where('question_id').equals(question_id).first()
FirstBookmarkOf(question_id) ==
    IF BookmarksOf(question_id) = {} THEN Undefined
    ELSE CHOOSE b \in BookmarksOf(question_id) :
            \A other \in BookmarksOf(question_id) : b.id <= other.id

\* toggleBookmark after initStorage: the bookmark is normalized and the query
\* for an existing bookmark of its question returns.
ToggleBookmarkQuery(o) ==
    /\ storage.ops[o].pc = "access"
    /\ storage.ops[o].fn = "toggleBookmark"
    /\ LET normalized == toBookmarkWithQuestionId(storage.ops[o].argument)
           existing == FirstBookmarkOf(normalized.question_id)
       IN  storage' = [storage EXCEPT
               !.ops[o].existing = existing,
               !.ops[o].pc = IF existing # Undefined THEN "delete"
                             ELSE "put"]
    /\ StorageUnchanged

\* if (existing) { await db.bookmarks.delete(existing.id); return }
ToggleBookmarkDelete(o) ==
    /\ storage.ops[o].pc = "delete"
    /\ storage' = [storage EXCEPT
           !.db.bookmarks = {b \in @ : b.id # storage.ops[o].existing.id},
           !.ops[o].pc = "done"]
    /\ StorageUnchanged

\* await db.bookmarks.put(normalized)
ToggleBookmarkPut(o) ==
    /\ storage.ops[o].pc = "put"
    /\ storage' = [storage EXCEPT
           !.db.bookmarks =
               Put(@, toBookmarkWithQuestionId(storage.ops[o].argument)),
           !.ops[o].pc = "done"]
    /\ StorageUnchanged

BookmarksInit ==
    /\ storage \in [init_task : {0}, tasks : {<<>>}, ops : {<<>>},
                    commits : {0}, db : InitialDatabases,
                    local_storage : [records : {<<>>},
                                     bookmarks : LegacyBookmarkLists]]
    /\ loader = Null
    /\ session = Null
    /\ sm2_state = Null
    /\ sm2_call = Null
    /\ sym_items = <<>>
    /\ sym_call = Null
    /\ dataset = NoDataset
    /\ call = Null

BookmarksNext ==
    \/ \E bookmark \in NewBookmarks : handleToggleBookmark(bookmark)
    \/ \E t \in DOMAIN storage.tasks : MetaGetReturns(t)
    \/ \E t \in DOMAIN storage.tasks : TransactionCommits(t)
    \/ \E o \in DOMAIN storage.ops : InitStorageReturns(o)
    \/ \E o \in DOMAIN storage.ops : ToggleBookmarkQuery(o)
    \/ \E o \in DOMAIN storage.ops : ToggleBookmarkDelete(o)
    \/ \E o \in DOMAIN storage.ops : ToggleBookmarkPut(o)

SpecBookmarks == BookmarksInit /\ [][BookmarksNext]_vars

\* The question had a bookmark before the toggles: the migrated legacy one.
BookmarkedBefore(question_id) ==
    /\ storage.commits = 1
    /\ \E i \in DOMAIN storage.local_storage.bookmarks :
          storage.local_storage.bookmarks[i].question_snapshot.id = question_id

\* C30: after any interleaving of toggleBookmark calls at most one bookmark is
\* stored per question_id, and two completed toggles of the same question
\* leave it bookmarked exactly if it was bookmarked before them.
C30_OneBookmarkPerQuestion ==
    /\ \A q \in QuestionIds : Cardinality(BookmarksOf(q)) <= 1
    /\ \A q \in QuestionIds :
          (/\ Len(storage.ops) = 2
           /\ \A o \in DOMAIN storage.ops :
                 /\ storage.ops[o].pc = "done"
                 /\ storage.ops[o].argument.question_id = q)
              => (BookmarksOf(q) # {} <=> BookmarkedBefore(q))

-----------------------------------------------------------------------------
(* The question on screen and its submissions (App.tsx).                   *)
(* Every handler reads the state of the latest render.  session.persists   *)
(* are the calls of persistQuestionResult, each at its await of            *)
(* saveAnswerRecord ("save") or of getAnswerRecords ("reload"), or ended;  *)
(* session.records is the answer_records table, keyed by id.  The          *)
(* countdown is scaled to MaxSeconds.                                      *)

MaxQuestions == 2

MaxSeconds == 2

MaxPersists == 3

SessionUnchanged == UNCHANGED <<sm2_vars, sym_vars, engine_vars, loader, storage>>

\* The timer effect is set up: a question is shown, not submitted, and the
\* exam has no summary yet.
TimerRuns == ~session.submitted /\ ~session.exam_summary

\* persistQuestionResult(question, ...) up to its await of saveAnswerRecord;
\* the record gets its id from create_record_id.
persistQuestionResult(state, by, id) ==
    [state EXCEPT
        !.persists = Append(@, [question_id |-> state.current_index,
                                by |-> by, id |-> id, pc |-> "save"])]

\* finishExam: setExamSummary(summary); setSubmitted(true)
finishExam(state) == [state EXCEPT !.exam_summary = TRUE, !.submitted = TRUE]

\* submitAnswer: returns when the question is submitted; otherwise sets
\* submitted and persists the answer.
submitAnswer(id) ==
    /\ ~session.submitted
    /\ Len(session.persists) < MaxPersists
    /\ session' = persistQuestionResult(
                      [session EXCEPT !.submitted = TRUE], "submitAnswer", id)
    /\ SessionUnchanged

\* submitExamPaper: in an exam without summary, persists the question on
\* screen when it is not submitted, and otherwise finishes the exam at once.
submitExamPaper(id) ==
    /\ session.session_mode = "exam"
    /\ ~session.exam_summary
    /\ IF ~session.submitted
       THEN /\ Len(session.persists) < MaxPersists
            /\ session' = persistQuestionResult(
                              [session EXCEPT !.submitted = TRUE],
                              "submitExamPaper", id)
       ELSE session' = finishExam(session)
    /\ SessionUnchanged

\* The interval of the timer effect, more than a second left.
TimerTick ==
    /\ TimerRuns
    /\ session.remaining_seconds > 1
    /\ session' = [session EXCEPT !.remaining_seconds = @ - 1]
    /\ SessionUnchanged

\* The interval of the timer effect, time up: the question is submitted with
\* no answer.
TimerExpires(id) ==
    /\ TimerRuns
    /\ session.remaining_seconds <= 1
    /\ Len(session.persists) < MaxPersists
    /\ session' = persistQuestionResult(
                      [session EXCEPT !.submitted = TRUE,
                                      !.remaining_seconds = 0], "timer", id)
    /\ SessionUnchanged

\* nextQuestion, offered once the question is submitted: the exam finishes
\* after the last question; otherwise the next question is shown, not
\* submitted, in practice with a new countdown.
nextQuestion ==
    /\ session.submitted
    /\ ~session.exam_summary
    /\ IF session.current_index + 1 > MaxQuestions
       THEN /\ session.session_mode = "exam"
            /\ session' = finishExam(session)
       ELSE session' = [session EXCEPT
                !.current_index = @ + 1,
                !.submitted = FALSE,
                !.remaining_seconds =
                    IF session.session_mode = "practice" THEN MaxSeconds
                    ELSE @]
    /\ SessionUnchanged

\* await saveAnswerRecord(record) returns: the record is in the table.
SaveAnswerRecordReturns(p) ==
    /\ session.persists[p].pc = "save"
    /\ session' = [session EXCEPT
           !.records = Put(@, [id |-> session.persists[p].id,
                               question_id |-> session.persists[p].question_id]),
           !.persists[p].pc = "reload"]
    /\ SessionUnchanged

\* await saveAnswerRecord(record) throws: catch, setSubmitted(false), null.
SaveAnswerRecordThrows(p) ==
    /\ session.persists[p].pc = "save"
    /\ session' = [session EXCEPT !.submitted = FALSE,
                                  !.persists[p].pc = "failed"]
    /\ SessionUnchanged

\* The caller of persistQuestionResult after a summary is returned: the
\* answer joins session_answers; submitExamPaper finishes the exam, and so
\* does the timer in an exam.
Summarized(state, p) ==
    LET answered == [state EXCEPT
                        !.session_answers = @ \cup {state.persists[p].question_id},
                        !.persists[p].pc = "done"]
        by == state.persists[p].by
    IN  IF \/ by = "submitExamPaper"
           \/ by = "timer" /\ state.session_mode = "exam"
        THEN finishExam(answered)
        ELSE answered

\* setRecords(await getAnswerRecords()) returns: the summary is returned.
GetAnswerRecordsReturns(p) ==
    /\ session.persists[p].pc = "reload"
    /\ session' = Summarized(session, p)
    /\ SessionUnchanged

\* await getAnswerRecords() throws inside the same try block: catch,
\* setSubmitted(false), null.
GetAnswerRecordsThrows(p) ==
    /\ session.persists[p].pc = "reload"
    /\ session' = [session EXCEPT !.submitted = FALSE,
                                  !.persists[p].pc = "failed"]
    /\ SessionUnchanged

\* startSession: the first question, not submitted, the countdown full.
SessionInit ==
    /\ session \in [session_mode : {"practice", "exam"},
                    current_index : {1}, submitted : {FALSE},
                    exam_summary : {FALSE},
                    remaining_seconds : {MaxSeconds},
                    session_answers : {{}}, records : {{}},
                    persists : {<<>>}]
    /\ loader = Null
    /\ storage = Null
    /\ sm2_state = Null
    /\ sm2_call = Null
    /\ sym_items = <<>>
    /\ sym_call = Null
    /\ dataset = NoDataset
    /\ call = Null

SessionNext ==
    \/ \E id \in RecordIds : submitAnswer(id)
    \/ \E id \in RecordIds : submitExamPaper(id)
    \/ TimerTick
    \/ \E id \in RecordIds : TimerExpires(id)
    \/ nextQuestion
    \/ \E p \in DOMAIN session.persists : SaveAnswerRecordReturns(p)
    \/ \E p \in DOMAIN session.persists : SaveAnswerRecordThrows(p)
    \/ \E p \in DOMAIN session.persists : GetAnswerRecordsReturns(p)
    \/ \E p \in DOMAIN session.persists : GetAnswerRecordsThrows(p)

SpecSession == SessionInit /\ [][SessionNext]_vars

\* C29: for each question shown in a session at most one answer record is
\* persisted, under any interleaving of the manual submit, the exam-paper
\* submit and the expiry of the countdown, a failed save allowing the
\* question to be submitted again.
C29_OneRecordPerQuestion ==
    \A q \in 1..MaxQuestions :
        Cardinality({r \in session.records : r.question_id = q}) <= 1

====
